---- MODULE Spec2Model ----
(***************************************************************************)
(* Model of the Telegram -> tmux bridge (workspace/scripts/telegram-bot.py) *)
(* main poll loop, chat registry, rate limiter, attachment resolver,       *)
(* injection sink, typing-indicator start/stop and peer bridge handler.    *)
(*                                                                         *)
(* A message text is modelled as the sequence of its whitespace-separated  *)
(* words; the paragraph break "\n\n" that joins fragments is a word of its *)
(* own (PARA).  Chat ids are small positive integers; their decimal        *)
(* spelling inside a text is the word Digits[id].                          *)
(***************************************************************************)
EXTENDS Integers, Sequences, FiniteSets, TLC

\* ------------------------------------------------------------------ bounds
MaxUpdates == 2      \* updates the upstream transport delivers (mixed scenario)
MaxBurst == 6        \* updates of the single-chat burst scenario
MaxRestarts == 1     \* process restarts (systemd service)
MaxBridge == 1       \* peer bridge requests
MaxClock == 30       \* seconds the clock of the rate scenario runs
MaxTools == 2        \* entries of an allowed_tools argument
MaxSlow == 1         \* sendChatAction requests that do not return at once
MaxStarts == 2       \* PID-file controller: start_typing calls of the bot
MaxStops == 2        \* PID-file controller: stop_typing calls of the MCP server

\* ------------------------------------------------------- program constants
RATE_MAX == 5                      \* telegram-bot.py:425
RATE_WINDOW == 30                  \* telegram-bot.py:424
FILE_SIZE_LIMIT == 20 * 1024 * 1024  \* telegram-bot.py:69
TYPING_TIMEOUT == 90               \* telegram-bot.py:182
TYPING_TICK == 4                   \* telegram-bot.py:202
POST_TIMEOUT == 35                 \* telegram-bot.py:111
POLL_ATTEMPTS == 3                 \* telegram-bot.py:258
RETRIES == 3                       \* telegram-bot.py:107

\* ------------------------------------------------------------ input domains
Chats == {1, 2}
Digits == <<"1", "2", "3">>
PARA == "\n\n"
NoMsg == [chat |-> 0, kind |-> "nomsg", text |-> <<>>, caption |-> <<>>, size |-> 0]

Range(s) == {s[i] : i \in 1..Len(s)}

TextMsg(c, t) == [chat |-> c, kind |-> "text", text |-> t, caption |-> <<>>, size |-> 0]
FileMsg(c, k, cap, n) == [chat |-> c, kind |-> k, text |-> <<>>, caption |-> cap, size |-> n]

\* The environment's inputs are explored scenario by scenario.
\* "mixed": plain texts and /allow commands of every chat, with restarts.
MixedMsgs ==
    {TextMsg(c, <<"hi">>) : c \in Chats}
    \cup {TextMsg(c, <<"/allow", Digits[d]>>) : c \in Chats, d \in Chats}

\* "files": attachments (a document within and over the size limit, a voice
\* note) of every chat, and a text of chat 1.
FileMsgs ==
    {FileMsg(c, "document", <<>>, 1) : c \in Chats}
    \cup {FileMsg(c, "document", <<>>, FILE_SIZE_LIMIT + 1) : c \in Chats}
    \cup {FileMsg(c, "voice", <<>>, 1) : c \in Chats}
    \cup {TextMsg(1, <<"hi">>)}

\* "burst": text fragments of one registered chat.
BurstMsgs == {TextMsg(1, <<"hi">>)}

\* "bridge": texts of one registered chat, while the peer bridge is called.
BridgeMsgs == {TextMsg(1, <<"hi">>)}

\* "faults": a text and an /allow command of chat 1, on a host where tmux
\* can be missing and the config file can be unwritable.
FaultMsgs == {TextMsg(1, <<"hi">>), TextMsg(1, <<"/allow", Digits[2]>>)}

\* "typing": texts of one registered chat, while the typing loops run.
TypingMsgs == {TextMsg(1, <<"hi">>)}

\* "send": texts of one registered chat, while the typing loops run and the
\* session answers with telegram_send calls.
SendMsgs == {TextMsg(1, <<"hi">>)}

\* "pair": texts of two registered chats, while the typing loops run.
PairMsgs == {TextMsg(c, <<"hi">>) : c \in Chats}

\* "retry": texts of one registered chat, over a transport whose every
\* attempt can fail.
RetryMsgs == {TextMsg(1, <<"hi">>)}

\* "voice": voice notes of one registered chat, on a host where loading the
\* transcription model can fail.
VoiceMsgs == {FileMsg(1, "voice", <<>>, 1)}

\* "turns": texts of one registered chat, while the typing loops run and the
\* session answers the turns it was given.
TurnMsgs == {TextMsg(1, <<"hi">>)}

\* "rate": texts of one registered chat, while the clock advances.
RateMsgs == {TextMsg(1, <<"hi">>)}

\* the clock advances by 10 s or 19 s, so that two readings can be 29 s and
\* 30 s apart (either side of the rate window's edge)
TickSteps == {10, RATE_WINDOW - 11}

Inputs(sc) ==
    IF sc = "mixed" THEN MixedMsgs
    ELSE IF sc = "files" THEN FileMsgs
    ELSE IF sc = "burst" THEN BurstMsgs
    ELSE IF sc = "rate" THEN RateMsgs
    ELSE IF sc = "typing" THEN TypingMsgs
    ELSE IF sc = "faults" THEN FaultMsgs
    ELSE IF sc = "send" THEN SendMsgs
    ELSE IF sc = "voice" THEN VoiceMsgs
    ELSE IF sc = "turns" THEN TurnMsgs
    ELSE IF sc = "keys" THEN BridgeMsgs
    ELSE IF sc = "retry" THEN RetryMsgs
    ELSE IF sc = "pair" THEN PairMsgs
    ELSE BridgeMsgs

MaxIn(sc) == IF sc \in {"burst", "rate"} THEN MaxBurst ELSE MaxUpdates

VARIABLES
    scenario,       \* which inputs the environment sends, see Inputs
    pidctl,         \* the PID-file typing controller of src/telegram-bot.py, src/clawdy-mcp.py
    bridge_key,     \* .env: BRIDGE_API_KEY, "" when it is not set
    whisper_model,  \* _whisper_model is set (the transcription model is loaded)
    mcp,            \* clawdy-mcp.py: the tool call served last
    ts_ip,          \* peer bridge: the address the server is bound to, "none": not started
    pending,        \* upstream transport: unconfirmed updates, in id order
    nextId,         \* upstream transport: id of the next update
    configFile,     \* telegram-config.json: allowed_chats as persisted
    envAllowed,     \* .env: TELEGRAM_ALLOWED_CHATS
    run,            \* number of restarts so far
    pc,             \* main(): "poll" | "followup" | "process" | "inject" | "submit"
    offset,         \* main(): offset (0 models None)
    data,           \* main(): data["result"], the batch
    idx,            \* main(): position of the for loop in the batch
    to_inject,      \* main(): to_inject, in insertion order
    cfg,            \* main(): cfg["allowed_chats"]
    rate_limit,     \* _rate_limit
    now,            \* time.time(), seconds
    loops,          \* typing loop threads ever started in this run, see NewLoop
    typing_thread,  \* _typing_thread: index into loops, 0 = None
    stop_event,     \* _stop_typing_event
    stop_marker,    \* STOP_TYPING file exists
    tmux,           \* keystroke deliveries received by the downstream session
    sent,           \* sendMessage calls issued by the bot
    bpc,            \* bridge handler thread: "idle" | "content" | "submit"
    bcount,         \* bridge requests handled so far
    bresp,          \* bridge: HTTP statuses answered
    readLog,        \* history: update ids read by the for loop in this run
    admitted,       \* history: <<update id, chat, text>> queued in this batch
    issued,         \* history: inject_to_claude calls of this batch
    injCount,       \* history: per update id, injections it contributed to (this run)
    trace           \* history: what each handler did, see NoTrace

vars == <<scenario, pidctl, bridge_key, whisper_model, mcp, ts_ip, pending, nextId, configFile, envAllowed, run, pc, offset, data,
          idx, to_inject, cfg, rate_limit, now, loops, typing_thread, stop_event,
          stop_marker, tmux, sent, bpc, bcount, bresp, readLog, admitted, issued,
          injCount, trace>>

transportVars == <<pending, nextId>>
durableVars == <<configFile, envAllowed>>
typingVars == <<loops, typing_thread, stop_event, stop_marker>>
bridgeVars == <<bpc, bcount, bresp>>
histVars == <<readLog, admitted, issued, injCount, trace>>

\* ------------------------------------------------------------ pure helpers
\* chat_id in cfg["allowed_chats"]
InAllowed(chat, allowed) == \E i \in 1..Len(allowed) : allowed[i] = chat

\* text.startswith("/allow ")
StartsWithAllow(text) == Len(text) >= 2 /\ text[1] = "/allow"

\* new_id = text.split()[-1]
LastWord(text) == text[Len(text)]

\* new_id.lstrip("-").isdigit()
IsDigit(w) == \E i \in 1..Len(Digits) : Digits[i] = w

\* int(new_id)
ParseInt(w) == CHOOSE i \in 1..Len(Digits) : Digits[i] = w

\* get_file_info(msg): a supported attachment is present
HasFile(m) == m.kind \in {"document", "voice"}

\* is_voice = filename_hint == "voice.ogg" or "voice" in msg
IsVoice(m) == m.kind = "voice"

\* a size check that lets every attachment through
TooLargeNever(m) == FALSE

\* file_size and file_size > FILE_SIZE_LIMIT
TooLarge(m) == m.size # 0 /\ m.size > FILE_SIZE_LIMIT

\* a cursor that stays on the update it has just read
AdvanceCursorStay(update_id) == update_id

\* offset = update["update_id"] + 1
AdvanceCursor(update_id) == update_id + 1

\* a follow-up poll that asks for the last update again
FollowupOffsetSame(batch) == batch[Len(batch)].id

\* next_offset = data["result"][-1]["update_id"] + 1
FollowupOffset(batch) == batch[Len(batch)].id + 1

RECURSIVE JoinLine(_)
\* fragments joined by a single line break instead of a blank line
JoinLine(texts) ==
    IF texts = <<>> THEN <<>>
    ELSE IF Len(texts) = 1 THEN texts[1]
    ELSE texts[1] \o <<"\n">> \o JoinLine(Tail(texts))

RECURSIVE Join(_)
\* "\n\n".join(batch["texts"])
Join(texts) ==
    IF texts = <<>> THEN <<>>
    ELSE IF Len(texts) = 1 THEN texts[1]
    ELSE texts[1] \o <<PARA>> \o Join(Tail(texts))

\* the sequences that list the elements of S once each: list(set(...))
ListsOf(S) == {f \in [1..Cardinality(S) -> S] : \A i, j \in 1..Cardinality(S) : f[i] = f[j] => i = j}

\* cfg["allowed_chats"] + [int(c) for c in env_allowed if c.isdigit()], as a set
MergedChats(fileChats, envChats) == Range(fileChats) \cup Range(envChats)

Msg(to, kind, about) == [to |-> to, kind |-> kind, about |-> about]

\* ---------------------------------------------------- attachment resolver
\* main(), "if not text:" block.  dlOk: download_file returned a path;
\* trOk: transcribe_voice returned text.
\* a failure branch without its notice and its "continue"
FailedFallsThrough(m, note, kind) ==
    [drop |-> FALSE, text |-> <<>>, sends |-> <<note>>, fetch |-> 1]

\* the "Could not transcribe" / "Failed to download" branches: notify, continue
Failed(m, note, kind) ==
    [drop |-> TRUE, text |-> <<>>, sends |-> <<note, Msg(m.chat, kind, 0)>>, fetch |-> 1]

\* an attachment block that resolves the attachments of every chat
ResolvableAnyone(m, allowed) == HasFile(m)

\* "if file_id and chat_id in cfg["allowed_chats"]": the attachment is resolved
Resolvable(m, allowed) == HasFile(m) /\ InAllowed(m.chat, allowed)

Resolve(m, allowed, dlOk, trOk) ==
    IF m.text # <<>> THEN
        [drop |-> FALSE, text |-> m.text, sends |-> <<>>, fetch |-> 0]
    ELSE IF Resolvable(m, allowed) THEN
        IF TooLarge(m) THEN
            [drop |-> TRUE, text |-> <<>>, sends |-> <<Msg(m.chat, "too_large", 0)>>, fetch |-> 0]
        ELSE
            LET note == Msg(m.chat, IF IsVoice(m) THEN "transcribing" ELSE "downloading", 0)
            IN  IF dlOk THEN
                    IF IsVoice(m) THEN
                        IF trOk THEN
                            [drop |-> FALSE, text |-> <<"spoken">> \o m.caption,
                             sends |-> <<note>>, fetch |-> 1]
                        ELSE Failed(m, note, "transcribe_fail")
                    ELSE
                        [drop |-> FALSE,
                         text |-> <<"[File", "path]">>
                                  \o (IF m.caption # <<>> THEN <<"Caption:">> \o m.caption ELSE <<>>),
                         sends |-> <<note>>, fetch |-> 1]
                ELSE Failed(m, note, "download_fail")
    ELSE IF InAllowed(m.chat, allowed) THEN
        [drop |-> TRUE, text |-> <<>>, sends |-> <<Msg(m.chat, "unsupported", 0)>>, fetch |-> 0]
    ELSE
        [drop |-> TRUE, text |-> <<>>, sends |-> <<>>, fetch |-> 0]

\* ------------------------------------------------- authorization + rate limit
\* an /allow command accepted from any chat
AllowGuardAnyone(chat, text, allowed) == StartsWithAllow(text)

\* text.startswith("/allow ") and chat_id in cfg["allowed_chats"]
AllowGuard(chat, text, allowed) == StartsWithAllow(text) /\ InAllowed(chat, allowed)

\* an authorization check that lets every chat through
UnauthorizedNever(chat, allowed) == FALSE

\* if chat_id not in cfg["allowed_chats"]
Unauthorized(chat, allowed) == ~InAllowed(chat, allowed)

\* [t for t in _rate_limit[chat_id] if now - t < 30]
Prune(window, t) == SelectSeq(window, LAMBDA x : t - x < RATE_WINDOW)

\* a limit that lets one message more through
RateExceededOffByOne(window) == Len(window) > RATE_MAX

\* len(_rate_limit[chat_id]) >= 5
RateExceeded(window) == Len(window) >= RATE_MAX

\* a rejection that still records the message in the chat's window
RejectedCounted(keep, rl, chat, window, t) ==
    [keep EXCEPT !.rl = [rl EXCEPT ![chat] = Append(window, t)],
                 !.sends = <<Msg(chat, "slow_down", 0)>>]

\* the rejection branch: store the pruned window, send the notice, continue
Rejected(keep, rl, chat, window, t) ==
    [keep EXCEPT !.rl = [rl EXCEPT ![chat] = window],
                 !.sends = <<Msg(chat, "slow_down", 0)>>]

\* the message takes one of the two branches that end in "continue" before
\* the authorization check: the /allow command, the owner registration
IsControl(chat, text, allowed) == AllowGuard(chat, text, allowed) \/ allowed = <<>>

\* main(), from "Handle /allow command" to "Queue for batched injection".
\* Result: the registry, whether it was saved, the .env allow-list, the
\* messages sent, the rate windows, and the text queued (<<>> or <<text>>).
Decide(chat, text, allowed, env, rl, t) ==
    LET keep == [allowed |-> allowed, saved |-> FALSE, env |-> env, sends |-> <<>>,
                 rl |-> rl, queue |-> <<>>]
    IN  IF AllowGuard(chat, text, allowed) THEN
            IF IsDigit(LastWord(text)) THEN
                [keep EXCEPT !.allowed = Append(allowed, ParseInt(LastWord(text))),
                             !.saved = TRUE,
                             !.sends = <<Msg(chat, "allow_ok", ParseInt(LastWord(text)))>>]
            ELSE keep
        ELSE IF allowed = <<>> THEN
            [keep EXCEPT !.allowed = <<chat>>,
                         !.saved = TRUE,
                         !.sends = <<Msg(chat, "welcome", chat)>>,
                         !.env = IF env = <<>> THEN <<chat>> ELSE env]
        ELSE IF Unauthorized(chat, allowed) THEN
            [keep EXCEPT !.sends = <<Msg(allowed[1], "approval", chat),
                                     Msg(chat, "unauthorized", 0)>>]
        ELSE
            LET window == Prune(rl[chat], t)
            IN  IF RateExceeded(window) THEN Rejected(keep, rl, chat, window, t)
                ELSE
                    [keep EXCEPT !.rl = [rl EXCEPT ![chat] = Append(window, t)],
                                 !.queue = <<text>>]

\* if chat_id not in to_inject: to_inject[chat_id] = {...}; ...["texts"].append(text)
Enqueue(q, chat, text) ==
    IF \E i \in 1..Len(q) : q[i].chat = chat
    THEN [i \in 1..Len(q) |->
            IF q[i].chat = chat THEN [q[i] EXCEPT !.texts = Append(@, text)] ELSE q[i]]
    ELSE Append(q, [chat |-> chat, texts |-> <<text>>])

\* ------------------------------------------------------- typing controller
\* A thread running _loop.  at: "check" (top of the while), "post" (inside
\* requests.post), "backoff" (tg_request sleeping before a retry), "wait"
\* (inside _stop_typing_event.wait), "done" (returned); age: seconds since
\* the thread started (time.time() - (deadline - timeout)); timer: seconds
\* until the post times out, the sleep or the wait ends; tries: attempts of
\* the current tg_request.
\* History: late: it sent a sendChatAction request later than timeout + one
\* tick after its start; asked: whether stop_typing set the event for it
\* ("no", "restart" from start_typing, "failure" from the failed injection);
\* req: the stop marker was created while it ran; sentAsked: it sent a
\* request after a "failure" stop; sentReq: it passed a marker check that
\* followed the marker's creation.
NewLoop(chat) ==
    [chat |-> chat, alive |-> TRUE, at |-> "check", age |-> 0, timer |-> 0, tries |-> 0,
     late |-> FALSE, asked |-> "no", req |-> FALSE, sentAsked |-> FALSE, sentReq |-> FALSE]

\* the thread has returned from _loop
Exit(l) == [l EXCEPT !.alive = FALSE, !.at = "done", !.age = 0, !.timer = 0, !.tries = 0]

\* whether thread.join(timeout=2) finds the thread finished: a loop inside
\* tg_request (a post of up to 35 s, or a retry sleep) may outlast the join;
\* a loop at the top of the while or inside wait() observes the event at once
JoinOutcomes(ls, tt) ==
    IF tt # 0 /\ ls[tt].alive /\ ls[tt].at \in {"post", "backoff"} THEN BOOLEAN ELSE {TRUE}

\* stop_typing(): set the event and join (2 s) when the thread is alive;
\* joined tells whether the loop finished within the bounded join.  Setting
\* the event wakes every loop that is inside wait().
\* Result: <<loops, stop_event>>; _typing_thread becomes None.
StopTyping(ls, tt, ev, joined, why) ==
    IF tt # 0 /\ ls[tt].alive
    THEN <<[i \in 1..Len(ls) |->
              LET l == IF i = tt THEN [ls[i] EXCEPT !.asked = why] ELSE ls[i]
              IN  IF l.alive /\ (l.at = "wait" \/ (i = tt /\ joined)) THEN Exit(l) ELSE l],
           TRUE>>
    ELSE <<ls, ev>>

\* a start_typing that leaves a stale marker in place
UnlinkKeeps(marker) == marker

\* STOP_TYPING.unlink(missing_ok=True): whether the marker exists afterwards
Unlink(marker) == FALSE

\* start_typing(chat_id): stop_typing(), clear the event, unlink the marker,
\* start a new loop thread.  Result: <<loops, typing_thread>>.
StartTyping(ls, tt, ev, chat, joined) ==
    LET stopped == StopTyping(ls, tt, ev, joined, "restart")[1]
    IN  <<Append(stopped, NewLoop(chat)), Len(stopped) + 1>>

\* a sendChatAction request leaves the loop
SendAction(l) ==
    [l EXCEPT !.late = @ \/ l.age > TYPING_TIMEOUT + TYPING_TICK,
              !.sentAsked = @ \/ l.asked = "failure"]

\* if _stop_typing_event.wait(4): break
EnterWait(l, ev) ==
    IF ev THEN Exit(l)
    ELSE [l EXCEPT !.at = "wait", !.timer = TYPING_TICK, !.tries = 0]

\* a retry delay that does not grow
BackoffFlat(tries) == 1

\* delay = 2 ** attempt, after the attempt-th failure (attempts count from 1 here)
Backoff(tries) == 2 ^ (tries - 1)

\* ------------------------------------------------------ network retries
\* what one HTTP attempt does: "response" (a JSON answer with ok true),
\* "refused" (a JSON answer with ok false), "raise" (connection error,
\* timeout, a body that is not JSON)
AttemptOutcomes == {"response", "refused", "raise"}

\* "for attempt in range(n)": the k-th attempt (from 1) returns r.json(), or
\* raises; then the loop sleeps Backoff(k) unless it was the last attempt;
\* after the loop the not-ok value is returned.  delays: the sleeps made.
RECURSIVE RetryLoop(_, _, _, _)
RetryLoop(os, k, n, delays) ==
    IF k > n THEN [ok |-> FALSE, attempts |-> n, delays |-> delays]
    ELSE IF os[k] # "raise" THEN [ok |-> os[k] = "response", attempts |-> k, delays |-> delays]
    ELSE RetryLoop(os, k + 1, n, IF k < n THEN Append(delays, Backoff(k)) ELSE delays)

\* get_updates(token, offset, poll_timeout)
GetUpdates(os) == RetryLoop(os, 1, POLL_ATTEMPTS, <<>>)

\* tg_request(token, method, _retries=3, **kwargs)
TgRequest(os) == RetryLoop(os, 1, RETRIES, <<>>)

\* The attempts of a get_updates call: in the "retry" scenario every attempt
\* can go each way; elsewhere the transport answers at once or is down for
\* the whole call.
PollAttempts(sc) ==
    IF sc = "retry" THEN [1..POLL_ATTEMPTS -> AttemptOutcomes]
    ELSE {[k \in 1..POLL_ATTEMPTS |-> "response"], [k \in 1..POLL_ATTEMPTS |-> "raise"]}

\* The attempts of the tg_request behind a send_message call.
SendAttempts(sc) ==
    IF sc = "retry" THEN [1..RETRIES -> AttemptOutcomes]
    ELSE {[k \in 1..RETRIES |-> "response"]}

\* -------------------------------------------------------------- the system
EmptyRate == [c \in Chats |-> <<>>]
NoCount == [i \in 1..(MaxUpdates + MaxBurst) |-> 0]

\* seen:  per update of this batch, what the for loop did with it (fetch:
\*        getFile calls; dl, tr: FALSE when the download, the transcription failed)
\* rate:  per message that reached the rate limiter in this run, its verdict
\* breq:  per bridge request, its inputs, its status and its send-keys calls
\* slow:  sendChatAction requests that did not return at once, so far
\* net:   ("retry" scenario) the last get_updates or tg_request call of the
\*        main loop: its attempts and what it returned
NoNet == [fn |-> "none", os |-> <<>>, r |-> [ok |-> FALSE, attempts |-> 0, delays |-> <<>>]]
\* loads: ("voice" scenario) the load attempts of get_whisper_model in this
\*        process, TRUE for a load that succeeded
\* replies: ("turns" scenario) the turns the session has answered so far
\* stopFor: ("turns" scenario) the turn whose answer asked for the stop last
\* control: ("mixed" scenario) the updates consumed as control messages so
\*        far: an /allow command of an allowed chat, the message that
\*        registered the owner; kept over restarts
NoTrace == [seen |-> <<>>, rate |-> <<>>, breq |-> <<>>, slow |-> 0, net |-> NoNet,
            loads |-> <<>>, replies |-> 0, stopFor |-> 0, control |-> {}]

NetCall(tr, sc, fn, os, r) ==
    IF sc = "retry" THEN [tr EXCEPT !.net = [fn |-> fn, os |-> os, r |-> r]] ELSE tr

\* clawdy-mcp.py has served no tool call yet.  tool: the tool called last;
\* args: its arguments and the outcomes of its network calls; sends: the
\* impl_telegram_send calls it made; result: the value it returned
\* cmd: the command line it built for a subagent
NoCall == [tool |-> "none", args |-> <<>>, sends |-> <<>>, result |-> "none", cmd |-> <<>>]

\* start_bridge_server: what check_output(["tailscale", "ip", "-4"]) does: it
\* returns the host's tailnet address, or raises (tailscale not installed,
\* not running, logged out)
TailscaleOutcomes == {[raised |-> FALSE, out |-> "100.64.0.1"], [raised |-> TRUE, out |-> ""]}

\* try: ts_ip = check_output(...).strip() / except Exception: ts_ip = "0.0.0.0"
BindAddress(o) == IF o.raised THEN "0.0.0.0" ELSE o.out

\* env.get("BRIDGE_API_KEY", ""): the values the scenario's .env gives
EnvKeys(sc) ==
    IF sc \in {"bridge", "faults"} THEN {"secret"}
    ELSE IF sc = "keys" THEN {"", "secret"}
    ELSE {""}

\* a start-up that starts the listener whatever the key is
BridgeStartedAlways(key) == TRUE

\* "if bridge_key: start_bridge_server(bridge_key, bridge_port)"
BridgeStarted(key) == key # ""

\* The PID-file typing controller.  file: the pid in telegram-typing.pid, 0
\* when the file does not exist; live: the pids of the running
\* clawdy-typing-loop.py processes; spawned: the processes started so far
\* (the pid of the newest); bot, tool: where the bot's start_typing and the MCP
\* server's stop_typing are ("idle": not in a call; "raised": left by an
\* exception) and the pid they read or got; stops: stop_typing calls so far;
\* last: the call that completed last
NoLoop ==
    [file |-> 0, live |-> {}, spawned |-> 0,
     bot |-> [pc |-> "idle", pid |-> 0], tool |-> [pc |-> "idle", pid |-> 0],
     stops |-> 0, last |-> "none"]

InitIn(scenarios) ==
    /\ scenario \in scenarios
    /\ pending = <<>>
    /\ nextId = 1
    \* a fresh install, or an install whose owner (chat 1) registered earlier
    \* ("pair": and allowed chat 2)
    /\ configFile \in (IF scenario \in {"mixed", "files", "faults"} THEN {<<>>, <<1>>}
                       ELSE IF scenario = "pair" THEN {<<1, 2>>} ELSE {<<1>>})
    /\ envAllowed = configFile
    /\ run = 0
    /\ pc = "poll"
    /\ offset = 0
    /\ data = <<>>
    /\ idx = 1
    /\ to_inject = <<>>
    /\ cfg = configFile
    /\ rate_limit = EmptyRate
    /\ now = 0
    /\ loops = <<>>
    /\ typing_thread = 0
    /\ stop_event = FALSE
    /\ stop_marker = FALSE
    /\ tmux = <<>>
    /\ sent = <<>>
    /\ bpc = "idle"
    /\ bcount = 0
    /\ bresp = <<>>
    /\ readLog = <<>>
    /\ admitted = <<>>
    /\ issued = <<>>
    /\ injCount = NoCount
    /\ trace = NoTrace
    /\ whisper_model = FALSE
    /\ pidctl = NoLoop
    /\ mcp = NoCall
    \* BRIDGE_API_KEY is set in the scenarios with peer calls; "keys" explores
    \* an install that has it and one that has not
    /\ bridge_key \in EnvKeys(scenario)
    /\ ts_ip \in (IF BridgeStarted(bridge_key)
                  THEN {BindAddress(o) : o \in TailscaleOutcomes} ELSE {"none"})

\* The upstream transport receives a new message for the bot.  An arrival
\* commutes with every step of the bot that does not read the transport, so
\* it is taken only where the bot is about to read it.
Arrive ==
    /\ pc \in {"poll", "followup"}
    /\ nextId <= MaxIn(scenario)
    /\ \E m \in Inputs(scenario) :
          pending' = Append(pending, [id |-> nextId, msg |-> m])
    /\ nextId' = nextId + 1
    /\ UNCHANGED <<scenario, pidctl, bridge_key, whisper_model, mcp, ts_ip, configFile, envAllowed, run, pc, offset, data, idx, to_inject,
                   cfg, rate_limit, now, loops, typing_thread, stop_event, stop_marker,
                   tmux, sent, bpc, bcount, bresp, readLog, admitted, issued, injCount,
                   trace>>

\* getUpdates on the transport: an offset confirms (forgets) the updates
\* below it; without one (offset falsy) every unconfirmed update is returned.
Confirmed(q, off) == IF off = 0 THEN q ELSE SelectSeq(q, LAMBDA u : u.id >= off)

\* main(): data = get_updates(token, offset); "if not data.get('ok')" sleeps
\* and polls again; an empty result falls through the loops to the next poll.
Poll ==
    /\ pc = "poll"
    /\ \E os \in PollAttempts(scenario) :
          /\ IF GetUpdates(os).ok
             THEN /\ pending' = Confirmed(pending, offset)
                  /\ data' = pending'
                  /\ pc' = IF pending' = <<>> THEN "poll" ELSE "followup"
             ELSE UNCHANGED <<pending, data, pc>>
          /\ trace' = NetCall(trace, scenario, "get_updates", os, GetUpdates(os))
    /\ UNCHANGED <<scenario, pidctl, bridge_key, whisper_model, mcp, ts_ip, nextId, configFile, envAllowed, run, offset, idx, to_inject,
                   cfg, rate_limit, now, loops, typing_thread, stop_event, stop_marker,
                   tmux, sent, bpc, bcount, bresp, readLog, admitted, issued, injCount>>

\* a follow-up whose updates replace the first result
ExtendBatchReplaces(first, more) == IF more # <<>> THEN more ELSE first

\* if followup.get("result"): data["result"].extend(followup["result"])
ExtendBatch(first, more) == IF more # <<>> THEN first \o more ELSE first

\* main(): followup = get_updates(token, next_offset, poll_timeout=0), merged
\* into the batch; then the for loop starts with a fresh to_inject.
Followup ==
    /\ pc = "followup"
    /\ \E os \in PollAttempts(scenario) :
          /\ IF GetUpdates(os).ok
             THEN /\ pending' = Confirmed(pending, FollowupOffset(data))
                  /\ data' = ExtendBatch(data, pending')
             ELSE UNCHANGED <<pending, data>>
          /\ trace' = NetCall([trace EXCEPT !.seen = <<>>], scenario,
                               "get_updates", os, GetUpdates(os))
    /\ pc' = "process"
    /\ idx' = 1
    /\ to_inject' = <<>>
    /\ admitted' = <<>>
    /\ issued' = <<>>
    /\ UNCHANGED <<scenario, pidctl, bridge_key, whisper_model, mcp, ts_ip, nextId, configFile, envAllowed, run, offset, cfg, rate_limit,
                   now, loops, typing_thread, stop_event, stop_marker, tmux, sent, bpc,
                   bcount, bresp, readLog, injCount>>

\* download_file returns a path or None; it is called for attachments only
DownloadOutcomes(m) == IF m.text = <<>> /\ HasFile(m) THEN BOOLEAN ELSE {TRUE}

\* transcribe_voice returns a text or None; it is called for voice notes only
TranscribeOutcomes(m) == IF m.text = <<>> /\ IsVoice(m) THEN BOOLEAN ELSE {TRUE}

\* whether this update reaches transcribe_voice: a voice note of an allowed
\* chat, within the size limit, that was downloaded
Transcribes(m, allowed, dlOk) ==
    /\ m.kind # "nomsg" /\ m.text = <<>> /\ IsVoice(m)
    /\ Resolvable(m, allowed) /\ ~TooLarge(m) /\ dlOk

\* get_whisper_model: WhisperModel("base", ...) returns, or raises (package
\* missing, model file cannot be fetched, out of memory); the "voice"
\* scenario explores both, elsewhere the load succeeds
LoadOutcomes(sc, m) == IF sc = "voice" /\ m.kind # "nomsg" /\ IsVoice(m) THEN BOOLEAN ELSE {TRUE}

\* get_whisper_model: whether _whisper_model is set after the call; a load
\* is attempted whenever it is None
GetWhisperModel(model, ldOk) == model \/ ldOk

\* transcribe_voice: None without a model, else the text or None
TranscribeVoice(model, ldOk, trRun) == GetWhisperModel(model, ldOk) /\ trRun

\* the messages sent hold a throttling notice
Throttled(sends) == \E i \in 1..Len(sends) : sends[i].kind = "slow_down"

\* main(): one iteration of "for update in data.get('result', [])".
ProcessUpdate ==
    /\ pc = "process"
    /\ idx <= Len(data)
    /\ \E dlOk \in DownloadOutcomes(data[idx].msg), trRun \in TranscribeOutcomes(data[idx].msg),
          ldOk \in LoadOutcomes(scenario, data[idx].msg) :
          LET u == data[idx]
              m == u.msg
              voice == Transcribes(m, cfg, dlOk)
              trOk == TranscribeVoice(whisper_model, ldOk, trRun)
              r == Resolve(m, cfg, dlOk, trOk)
              d == IF m.kind = "nomsg" \/ r.drop
                   THEN [allowed |-> cfg, saved |-> FALSE, env |-> envAllowed,
                         sends |-> <<>>, rl |-> rate_limit, queue |-> <<>>]
                   ELSE Decide(m.chat, r.text, cfg, envAllowed, rate_limit, now)
              q == IF d.queue = <<>> THEN to_inject ELSE Enqueue(to_inject, m.chat, d.queue[1])
          IN  /\ offset' = AdvanceCursor(u.id)
              /\ readLog' = Append(readLog, u.id)
              /\ whisper_model' = IF voice THEN GetWhisperModel(whisper_model, ldOk)
                                   ELSE whisper_model
              /\ cfg' = d.allowed
              /\ configFile' = IF d.saved THEN d.allowed ELSE configFile
              /\ envAllowed' = d.env
              /\ rate_limit' = d.rl
              /\ sent' = sent \o (IF m.kind = "nomsg" THEN <<>> ELSE r.sends) \o d.sends
              /\ to_inject' = q
              /\ admitted' = IF d.queue = <<>> THEN admitted
                             ELSE Append(admitted, [id |-> u.id, chat |-> m.chat, text |-> d.queue[1]])
              /\ trace' = [trace EXCEPT
                     !.seen = Append(@, [id |-> u.id, msg |-> m, allowed |-> InAllowed(m.chat, cfg),
                                         fetch |-> IF m.kind = "nomsg" THEN 0 ELSE r.fetch,
                                         dl |-> (m.kind # "nomsg" /\ r.fetch = 1) => dlOk,
                                         tr |-> (m.kind # "nomsg" /\ r.fetch = 1 /\ dlOk /\ IsVoice(m)) => trOk,
                                         sends |-> (IF m.kind = "nomsg" THEN <<>> ELSE r.sends) \o d.sends,
                                         queued |-> d.queue # <<>>]),
                     !.rate = IF d.queue = <<>> /\ ~Throttled(d.sends) THEN @
                              ELSE Append(@, [id |-> u.id, chat |-> m.chat, t |-> now,
                                              ok |-> d.queue # <<>>]),
                     !.loads = IF scenario = "voice" /\ voice /\ ~whisper_model
                               THEN Append(@, ldOk) ELSE @,
                     !.control = IF scenario = "mixed" /\ m.kind # "nomsg" /\ ~r.drop
                                    /\ IsControl(m.chat, r.text, cfg)
                                 THEN @ \cup {u.id} ELSE @]
              /\ idx' = idx + 1
              /\ pc' = IF idx < Len(data) THEN "process"
                       ELSE IF q = <<>> THEN "poll" ELSE "inject"
    /\ UNCHANGED <<scenario, pidctl, bridge_key, mcp, ts_ip, pending, nextId, run, data, now, loops, typing_thread,
                   stop_event, stop_marker, tmux, bpc, bcount, bresp, issued, injCount>>

\* whether a tmux send-keys call can fail (CalledProcessError); the "mixed"
\* scenario, which explores the registry and restarts, has the session up
DeliveryOutcomes(sc) ==
    IF sc \in {"mixed", "rate", "send", "pair", "voice", "turns"} THEN {TRUE} ELSE BOOLEAN

\* after an injection (delivered or failed) the for loop over to_inject goes on
AfterInject(q) == IF Len(q) <= 1 THEN "poll" ELSE "inject"

\* main(): "for chat_id, batch in to_inject.items()": combine, start_typing,
\* and the first send-keys of inject_to_claude (the display line).
InjectContent ==
    /\ pc = "inject"
    /\ to_inject # <<>>
    /\ \E ok \in DeliveryOutcomes(scenario), j1 \in JoinOutcomes(loops, typing_thread),
          os \in SendAttempts(scenario) :
          LET batch == Head(to_inject)
              combined == Join(batch.texts)
              st == StartTyping(loops, typing_thread, stop_event, batch.chat, j1)
              \* the thread started a moment ago is joined in time
              failed == StopTyping(st[1], st[2], FALSE, TRUE, "failure")
              ids == {admitted[i].id : i \in {k \in 1..Len(admitted) : admitted[k].chat = batch.chat}}
          IN  /\ issued' = Append(issued, [chat |-> batch.chat, text |-> combined])
              /\ injCount' = [i \in DOMAIN injCount |-> IF i \in ids THEN injCount[i] + 1 ELSE injCount[i]]
              /\ stop_marker' = Unlink(stop_marker)
              /\ IF ok
                 THEN /\ tmux' = Append(tmux, [src |-> "TELEGRAM", key |-> "content", text |-> combined])
                      /\ loops' = st[1]
                      /\ typing_thread' = st[2]
                      /\ stop_event' = FALSE
                      /\ pc' = "submit"
                      /\ UNCHANGED <<to_inject, sent, trace>>
                 ELSE /\ loops' = failed[1]
                      /\ stop_event' = failed[2]
                      /\ typing_thread' = 0
                      /\ sent' = Append(sent, Msg(batch.chat, "unreachable", 0))
                      /\ to_inject' = Tail(to_inject)
                      /\ pc' = AfterInject(to_inject)
                      /\ trace' = NetCall(trace, scenario, "tg_request", os, TgRequest(os))
                      /\ UNCHANGED tmux
    /\ UNCHANGED <<scenario, pidctl, bridge_key, whisper_model, mcp, ts_ip, pending, nextId, configFile, envAllowed, run, offset, data,
                   idx, cfg, rate_limit, now, bpc, bcount, bresp, readLog, admitted>>

\* inject_to_claude: after the settle delay, the second send-keys (Enter).
InjectSubmit ==
    /\ pc = "submit"
    /\ \E ok \in DeliveryOutcomes(scenario), j \in JoinOutcomes(loops, typing_thread),
          os \in SendAttempts(scenario) :
          LET batch == Head(to_inject)
          IN  IF ok
              THEN /\ tmux' = Append(tmux, [src |-> "TELEGRAM", key |-> "submit", text |-> <<>>])
                   /\ UNCHANGED <<loops, typing_thread, stop_event, sent, trace>>
              ELSE /\ loops' = StopTyping(loops, typing_thread, stop_event, j, "failure")[1]
                   /\ stop_event' = StopTyping(loops, typing_thread, stop_event, j, "failure")[2]
                   /\ typing_thread' = 0
                   /\ sent' = Append(sent, Msg(batch.chat, "unreachable", 0))
                   /\ trace' = NetCall(trace, scenario, "tg_request", os, TgRequest(os))
                   /\ UNCHANGED tmux
    /\ to_inject' = Tail(to_inject)
    /\ pc' = AfterInject(to_inject)
    /\ UNCHANGED <<scenario, pidctl, bridge_key, whisper_model, mcp, ts_ip, pending, nextId, configFile, envAllowed, run, offset, data,
                   idx, cfg, rate_limit, now, stop_marker, bpc, bcount, bresp, readLog,
                   admitted, issued, injCount>>

\* a start-up in which the .env allow-list replaces the persisted registry
StartupChatsEnvOnly(fileChats, envChats) ==
    IF envChats # <<>> THEN ListsOf(Range(envChats)) ELSE {fileChats}

\* main() start-up: cfg = load_config(); when the .env allow-list is not
\* empty, allowed_chats = list(set(config + env)) and the config is saved.
\* The iteration order of a set is not specified: any listing may result.
StartupChats(fileChats, envChats) ==
    IF envChats # <<>> THEN ListsOf(MergedChats(fileChats, envChats)) ELSE {fileChats}

\* The service is stopped and started again: in-memory state is lost, the
\* daemon threads die, files and the downstream session remain.
Restart ==
    /\ scenario = "mixed"
    /\ run < MaxRestarts
    /\ run' = run + 1
    /\ cfg' \in StartupChats(configFile, envAllowed)
    /\ configFile' = cfg'
    /\ pc' = "poll"
    /\ offset' = 0
    /\ data' = <<>>
    /\ idx' = 1
    /\ to_inject' = <<>>
    /\ rate_limit' = EmptyRate
    /\ whisper_model' = FALSE
    /\ loops' = <<>>
    /\ typing_thread' = 0
    /\ stop_event' = FALSE
    /\ bpc' = "idle"
    /\ readLog' = <<>>
    /\ admitted' = <<>>
    /\ issued' = <<>>
    /\ injCount' = NoCount
    /\ trace' = [trace EXCEPT !.seen = <<>>, !.rate = <<>>]
    /\ UNCHANGED <<scenario, pidctl, bridge_key, mcp, ts_ip, pending, nextId, envAllowed, now, stop_marker, tmux, sent,
                   bcount, bresp>>

\* a handler that turns a peer away while a chat's rate window holds an entry
BridgeStatusRateLimited(path, key, body) ==
    IF path # "/inject" THEN 404
    ELSE IF key # bridge_key THEN 403
    ELSE IF body \in {"badjson", "empty"} THEN 400
    ELSE IF \E c \in Chats : rate_limit[c] # <<>> THEN 429
    ELSE 0

\* ------------------------------------------------------------ peer bridge
\* a handler that does not compare the X-API-Key header
BridgeStatusNoAuth(path, key, body) ==
    IF path # "/inject" THEN 404
    ELSE IF body \in {"badjson", "empty"} THEN 400
    ELSE 0

\* BridgeHandler.do_POST up to the first delivery: path, key and payload checks.
\* Result: the status answered, 0 when the handler goes on to deliver.
BridgeStatus(path, key, body) ==
    IF path # "/inject" THEN 404
    ELSE IF key # bridge_key THEN 403
    ELSE IF body \in {"badjson", "empty"} THEN 400
    ELSE 0

BridgeRequest ==
    /\ ts_ip # "none"
    /\ bpc = "idle"
    /\ bcount < MaxBridge
    /\ bcount' = bcount + 1
    /\ \E path \in {"/inject", "/other"}, key \in {"secret", "wrong", ""},
          body \in {"badjson", "empty", "msg"} :
          /\ trace' = [trace EXCEPT !.breq = Append(@, [path |-> path, key |-> key, body |-> body,
                                                        status |-> BridgeStatus(path, key, body),
                                                        calls |-> <<>>])]
          /\ IF BridgeStatus(path, key, body) # 0
             THEN /\ bresp' = Append(bresp, BridgeStatus(path, key, body))
                  /\ bpc' = "idle"
             ELSE /\ bpc' = "content"
                  /\ UNCHANGED bresp
    /\ UNCHANGED <<scenario, pidctl, bridge_key, whisper_model, mcp, ts_ip, pending, nextId, configFile, envAllowed, run, pc, offset, data,
                   idx, to_inject, cfg, rate_limit, now, loops, typing_thread, stop_event,
                   stop_marker, tmux, sent, readLog, admitted, issued, injCount>>

\* do_POST: first send-keys (the display line with the PEER prefix)
BridgeContent ==
    /\ bpc = "content"
    /\ \E ok \in BOOLEAN :
          /\ trace' = [trace EXCEPT !.breq[Len(trace.breq)].calls = Append(@, ok),
                                    !.breq[Len(trace.breq)].status = IF ok THEN 0 ELSE 500]
          /\ IF ok
             THEN /\ tmux' = Append(tmux, [src |-> "PEER", key |-> "content", text |-> <<"peer">>])
                  /\ bpc' = "submit"
                  /\ UNCHANGED bresp
             ELSE /\ bresp' = Append(bresp, 500)
                  /\ bpc' = "idle"
                  /\ UNCHANGED tmux
    /\ UNCHANGED <<scenario, pidctl, bridge_key, whisper_model, mcp, ts_ip, pending, nextId, configFile, envAllowed, run, pc, offset, data,
                   idx, to_inject, cfg, rate_limit, now, loops, typing_thread, stop_event,
                   stop_marker, sent, bcount, readLog, admitted, issued, injCount>>

\* do_POST: second send-keys (Enter) and the response
BridgeSubmit ==
    /\ bpc = "submit"
    /\ \E ok \in BOOLEAN :
          /\ trace' = [trace EXCEPT !.breq[Len(trace.breq)].calls = Append(@, ok),
                                    !.breq[Len(trace.breq)].status = IF ok THEN 200 ELSE 500]
          /\ IF ok
             THEN /\ tmux' = Append(tmux, [src |-> "PEER", key |-> "submit", text |-> <<>>])
                  /\ bresp' = Append(bresp, 200)
             ELSE /\ bresp' = Append(bresp, 500)
                  /\ UNCHANGED tmux
    /\ bpc' = "idle"
    /\ UNCHANGED <<scenario, pidctl, bridge_key, whisper_model, mcp, ts_ip, pending, nextId, configFile, envAllowed, run, pc, offset, data,
                   idx, to_inject, cfg, rate_limit, now, loops, typing_thread, stop_event,
                   stop_marker, sent, bcount, readLog, admitted, issued, injCount>>

\* time.time() read by the rate limiter: wall-clock time passes while the
\* loop polls and between the messages of a batch.  Only the for loop reads
\* the clock, so the time that passed is accounted for where it is read.
Tick ==
    /\ scenario = "rate"
    /\ pc = "process"
    /\ \E d \in TickSteps :
          /\ now + d <= MaxClock
          /\ now' = now + d
    /\ UNCHANGED <<scenario, pidctl, bridge_key, whisper_model, mcp, ts_ip, pending, nextId, configFile, envAllowed, run, pc, offset, data,
                   idx, to_inject, cfg, rate_limit, loops, typing_thread, stop_event,
                   stop_marker, tmux, sent, bpc, bcount, bresp, readLog, admitted, issued,
                   injCount, trace>>

\* The poll loop, its transport and its restarts.
Init == InitIn({"mixed", "files", "burst"})

Next ==
    \/ Arrive
    \/ Poll
    \/ Followup
    \/ ProcessUpdate
    \/ InjectContent
    \/ InjectSubmit
    \/ Restart

Spec == Init /\ [][Next]_vars

\* The poll loop next to the peer bridge handler thread.
InitBridge == InitIn({"bridge"})

NextBridge ==
    \/ Arrive
    \/ Poll
    \/ Followup
    \/ ProcessUpdate
    \/ InjectContent
    \/ InjectSubmit
    \/ BridgeRequest
    \/ BridgeContent
    \/ BridgeSubmit

SpecBridge == InitBridge /\ [][NextBridge]_vars

\* The poll loop next to the peer bridge handler thread, on an install with
\* and on one without a shared secret.
InitKeys == InitIn({"keys"})

NextKeys ==
    \/ Arrive
    \/ Poll
    \/ Followup
    \/ ProcessUpdate
    \/ InjectContent
    \/ InjectSubmit
    \/ BridgeRequest
    \/ BridgeContent
    \/ BridgeSubmit

SpecKeys == InitKeys /\ [][NextKeys]_vars

\* --------------------------------------------------- typing loop threads
Thread(i) == i \in 1..Len(loops) /\ loops[i].alive

mainVars == <<scenario, pidctl, bridge_key, whisper_model, mcp, ts_ip, pending, nextId, configFile, envAllowed, run, pc, offset, data, idx,
              to_inject, cfg, rate_limit, typing_thread, stop_event, tmux, sent, bpc,
              bcount, bresp, readLog, admitted, issued, injCount>>

\* whether the next sendChatAction request returns at once or blocks
SlowOutcomes == IF scenario = "typing" /\ trace.slow < MaxSlow THEN BOOLEAN ELSE {FALSE}

\* tg_request: one requests.post leaves; it returns at once (the loop goes
\* on to wait) or blocks for up to the 35 s timeout
Post(l, slow, ev) ==
    LET l1 == [SendAction(l) EXCEPT !.tries = l.tries + 1]
    IN  IF slow THEN [l1 EXCEPT !.at = "post", !.timer = POST_TIMEOUT]
        ELSE EnterWait(l1, ev)

\* _loop, top of the while: the marker check (exists, unlink, break), the
\* deadline check, and the start of tg_request("sendChatAction")
LoopCheck(i) ==
    /\ Thread(i)
    /\ loops[i].at = "check"
    /\ IF stop_marker
       THEN /\ stop_marker' = FALSE
            /\ loops' = [loops EXCEPT ![i] = Exit(loops[i])]
            /\ UNCHANGED trace
       ELSE IF loops[i].age >= TYPING_TIMEOUT
       THEN /\ loops' = [loops EXCEPT ![i] = Exit(loops[i])]
            /\ UNCHANGED <<stop_marker, trace>>
       ELSE \E slow \in SlowOutcomes :
            /\ loops' = [loops EXCEPT ![i] =
                    Post([loops[i] EXCEPT !.sentReq = @ \/ loops[i].req], slow, stop_event)]
            /\ trace' = [trace EXCEPT !.slow = IF slow THEN @ + 1 ELSE @]
            /\ UNCHANGED stop_marker
    /\ UNCHANGED <<mainVars, now>>

\* tg_request: the blocked post returns a response; the loop goes on to wait
PostReturn(i) ==
    /\ Thread(i)
    /\ loops[i].at = "post"
    /\ loops' = [loops EXCEPT ![i] = EnterWait(loops[i], stop_event)]
    /\ UNCHANGED <<mainVars, now, stop_marker, trace>>

\* tg_request: the blocked post times out; sleep and retry, or give up after
\* the last attempt and return {"ok": False}
PostFail(i) ==
    /\ Thread(i)
    /\ loops[i].at = "post"
    /\ loops[i].timer = 0
    /\ loops' = [loops EXCEPT ![i] =
            IF loops[i].tries < RETRIES
            THEN [loops[i] EXCEPT !.at = "backoff", !.timer = Backoff(loops[i].tries)]
            ELSE EnterWait(loops[i], stop_event)]
    /\ UNCHANGED <<mainVars, now, stop_marker, trace>>

\* tg_request: the retry sleep is over, the next attempt leaves
LoopRetry(i) ==
    /\ Thread(i)
    /\ loops[i].at = "backoff"
    /\ loops[i].timer = 0
    /\ \E slow \in SlowOutcomes :
          /\ loops' = [loops EXCEPT ![i] = Post(loops[i], slow, stop_event)]
          /\ trace' = [trace EXCEPT !.slow = IF slow THEN @ + 1 ELSE @]
    /\ UNCHANGED <<mainVars, now, stop_marker>>

\* _stop_typing_event.wait(4) returns False after the tick
LoopWake(i) ==
    /\ Thread(i)
    /\ loops[i].at = "wait"
    /\ loops[i].timer = 0
    /\ loops' = [loops EXCEPT ![i].at = "check"]
    /\ UNCHANGED <<mainVars, now, stop_marker, trace>>

\* clawdy-mcp.py, impl_telegram_send(end_typing=True): STOP_TYPING.touch()
TouchMarker ==
    /\ ~stop_marker
    /\ stop_marker' = TRUE
    /\ loops' = [i \in 1..Len(loops) |->
                    IF loops[i].alive THEN [loops[i] EXCEPT !.req = TRUE] ELSE loops[i]]
    /\ UNCHANGED <<mainVars, now, trace>>

\* Time passes up to the next moment at which a post times out, a retry
\* sleep or a wait ends; a loop that is due runs before more time passes.
\* The loops carry the time they have run; the rate limiter's clock (now)
\* is left alone, two messages being far from its limit.
Timers == {loops[i].timer : i \in {k \in 1..Len(loops) : loops[k].alive}}
Elapse ==
    /\ Timers # {}
    /\ \A i \in 1..Len(loops) : loops[i].alive => (loops[i].at # "check" /\ loops[i].timer > 0)
    /\ LET d == CHOOSE t \in Timers : \A u \in Timers : t <= u
       IN  loops' = [i \in 1..Len(loops) |->
                        IF loops[i].alive
                        THEN [loops[i] EXCEPT !.age = @ + d, !.timer = @ - d]
                        ELSE loops[i]]
    /\ UNCHANGED <<mainVars, now, stop_marker, trace>>

\* ------------------------------------------------- uncaught exceptions
\* An exception that no handler in main() catches leaves the while loop;
\* __main__ catches KeyboardInterrupt only, so the process ends and its
\* daemon threads (typing loops, bridge server) end with it.
Crash ==
    /\ pc' = "crashed"
    /\ bpc' = "dead"
    /\ loops' = <<>>
    /\ typing_thread' = 0

\* inject_to_claude: subprocess.run cannot execute tmux (FileNotFoundError,
\* not a CalledProcessError), after start_typing has run
DeliveryUnavailable ==
    /\ pc = "inject"
    /\ to_inject # <<>>
    /\ Crash
    /\ stop_marker' = FALSE
    /\ stop_event' = FALSE
    /\ issued' = Append(issued, [chat |-> Head(to_inject).chat, text |-> Join(Head(to_inject).texts)])
    /\ UNCHANGED <<scenario, pidctl, bridge_key, whisper_model, mcp, ts_ip, pending, nextId, configFile, envAllowed, run, offset, data, idx,
                   to_inject, cfg, rate_limit, now, tmux, sent, bcount, bresp, readLog,
                   admitted, injCount, trace>>

\* save_config: CONFIG_FILE.write_text raises OSError (disk full, read-only
\* file) in the /allow or the owner-registration branch; the entry was
\* appended in memory, nothing was sent yet
ConfigWriteFails ==
    /\ pc = "process"
    /\ idx <= Len(data)
    /\ LET u == data[idx]
           m == u.msg
           r == Resolve(m, cfg, TRUE, TRUE)
       IN  /\ m.kind # "nomsg" /\ ~r.drop
           /\ Decide(m.chat, r.text, cfg, envAllowed, rate_limit, now).saved
           /\ cfg' = Decide(m.chat, r.text, cfg, envAllowed, rate_limit, now).allowed
           /\ offset' = AdvanceCursor(u.id)
           /\ readLog' = Append(readLog, u.id)
    /\ Crash
    /\ UNCHANGED <<scenario, pidctl, bridge_key, whisper_model, mcp, ts_ip, pending, nextId, configFile, envAllowed, run, data, idx, to_inject,
                   rate_limit, now, stop_event, stop_marker, tmux, sent, bcount, bresp,
                   admitted, issued, injCount, trace>>

\* do_POST: subprocess.run cannot execute tmux; the exception leaves the
\* handler before send_response, the server closes the connection
BridgeUnavailable ==
    /\ bpc = "content"
    /\ bpc' = "idle"
    /\ UNCHANGED <<scenario, pidctl, bridge_key, whisper_model, mcp, ts_ip, pending, nextId, configFile, envAllowed, run, pc, offset, data,
                   idx, to_inject, cfg, rate_limit, now, loops, typing_thread, stop_event,
                   stop_marker, tmux, sent, bcount, bresp, readLog, admitted, issued,
                   injCount, trace>>

\* The poll loop and the bridge handler on a host where tmux can be missing
\* and the config file can be unwritable.
InitFaults == InitIn({"faults"})

NextFaults ==
    \/ Arrive
    \/ Poll
    \/ Followup
    \/ ProcessUpdate
    \/ InjectContent
    \/ InjectSubmit
    \/ BridgeRequest
    \/ BridgeContent
    \/ BridgeSubmit
    \/ DeliveryUnavailable
    \/ ConfigWriteFails
    \/ BridgeUnavailable

SpecFaults == InitFaults /\ [][NextFaults]_vars

\* The poll loop of one registered chat, its typing loop threads, the send
\* side that creates the stop marker, and the clock.
InitTyping == InitIn({"typing"})

NextTyping ==
    \/ Arrive
    \/ Poll
    \/ Followup
    \/ ProcessUpdate
    \/ InjectContent
    \/ InjectSubmit
    \/ \E i \in 1..MaxUpdates : LoopCheck(i)
    \/ \E i \in 1..MaxUpdates : PostReturn(i)
    \/ \E i \in 1..MaxUpdates : PostFail(i)
    \/ \E i \in 1..MaxUpdates : LoopRetry(i)
    \/ \E i \in 1..MaxUpdates : LoopWake(i)
    \/ TouchMarker
    \/ Elapse

SpecTyping == InitTyping /\ [][NextTyping]_vars

\* The poll loop of one registered chat under a running clock.
InitRate == InitIn({"rate"})

NextRate ==
    \/ Arrive
    \/ Poll
    \/ Followup
    \/ ProcessUpdate
    \/ InjectContent
    \/ InjectSubmit
    \/ Tick

SpecRate == InitRate /\ [][NextRate]_vars

\* ------------------------------------------------ clawdy-mcp.py tool calls
\* what one impl_telegram_send call returns: sent, no token, no chat id, a
\* request that raised, a chunk Telegram refused in both parse modes
SendOutcomes == {"sent", "no_token", "no_chat", "request_failed", "chunk_failed"}

\* a telegram_send that touches the marker on every call
ImplTelegramSendAlways(marker, end_typing) == TRUE

\* impl_telegram_send, "if end_typing: STOP_TYPING.touch()": whether the stop
\* marker exists after the call
ImplTelegramSend(marker, end_typing) == marker \/ end_typing

\* what the POST to the peer's /inject can do: raise (connection refused,
\* timeout after 10 s), or return a response with a status code
PeerOutcomes ==
    {[raised |-> TRUE, status |-> 0]}
    \cup {[raised |-> FALSE, status |-> c] : c \in {200, 204, 400, 403, 404, 500}}

\* a peer call that alerts on an exception only
ImplSendToPeerQuietStatus(urlSet, keySet, o) ==
    IF ~urlSet THEN [alerts |-> <<>>, result |-> "url_not_set"]
    ELSE IF ~keySet THEN [alerts |-> <<>>, result |-> "key_not_set"]
    ELSE IF o.raised THEN [alerts |-> <<"peer_unreachable">>, result |-> "failed_to_reach"]
    ELSE IF o.status = 200 THEN [alerts |-> <<>>, result |-> "sent_to_peer"]
    ELSE [alerts |-> <<>>, result |-> "peer_returned"]

\* impl_send_to_peer: the alerts it sends with impl_telegram_send and the
\* value it returns
ImplSendToPeer(urlSet, keySet, o) ==
    IF ~urlSet THEN [alerts |-> <<>>, result |-> "url_not_set"]
    ELSE IF ~keySet THEN [alerts |-> <<>>, result |-> "key_not_set"]
    ELSE IF o.raised THEN [alerts |-> <<"peer_unreachable">>, result |-> "failed_to_reach"]
    ELSE IF o.status = 200 THEN [alerts |-> <<>>, result |-> "sent_to_peer"]
    ELSE [alerts |-> <<"peer_failed">>, result |-> "peer_returned"]

\* the tool call send_to_peer: .env is read, the POST is made, and on a
\* failure the alert goes out through impl_telegram_send (end_typing left
\* at its default)
SendToPeer ==
    /\ \E urlSet \in BOOLEAN, keySet \in BOOLEAN, o \in PeerOutcomes, a \in SendOutcomes :
          LET r == ImplSendToPeer(urlSet, keySet, o)
          IN  /\ mcp' = [tool |-> "send_to_peer",
                      args |-> [url |-> urlSet, key |-> keySet, outcome |-> o],
                      sends |-> [i \in 1..Len(r.alerts) |->
                                    [kind |-> r.alerts[i], end_typing |-> FALSE, outcome |-> a]],
                      result |-> r.result, cmd |-> <<>>]
              /\ stop_marker' = IF r.alerts = <<>> THEN stop_marker
                                ELSE ImplTelegramSend(stop_marker, FALSE)
    /\ UNCHANGED <<scenario, pidctl, bridge_key, whisper_model, ts_ip, pending, nextId, configFile, envAllowed, run, pc, offset, data,
                   idx, to_inject, cfg, rate_limit, now, loops, typing_thread, stop_event,
                   tmux, sent, bpc, bcount, bresp, readLog, admitted, issued, injCount, trace>>

\* the end_typing argument of a telegram_send call: left out, or a JSON boolean
EndTypingArgs == {"omitted", "false", "true"}

\* call_tool: bool(arguments.get("end_typing", False))
EndTyping(arg) == arg = "true"

\* the tool call telegram_send(message, end_typing): the marker is touched
\* before anything that can fail; a loop that runs then has a stop request
TelegramSend ==
    /\ \E arg \in EndTypingArgs, o \in SendOutcomes :
       LET end_typing == EndTyping(arg)
       IN /\ mcp' = [tool |-> "telegram_send",
                      args |-> [end_typing |-> arg],
                      sends |-> <<[kind |-> "message", end_typing |-> end_typing, outcome |-> o]>>,
                      result |-> o, cmd |-> <<>>]
          /\ stop_marker' = ImplTelegramSend(stop_marker, end_typing)
          /\ loops' = [i \in 1..Len(loops) |->
                          IF loops[i].alive /\ end_typing
                          THEN [loops[i] EXCEPT !.req = TRUE] ELSE loops[i]]
    /\ UNCHANGED <<scenario, pidctl, bridge_key, whisper_model, ts_ip, pending, nextId, configFile, envAllowed, run, pc, offset, data,
                   idx, to_inject, cfg, rate_limit, now, typing_thread, stop_event,
                   tmux, sent, bpc, bcount, bresp, readLog, admitted, issued, injCount, trace>>

\* the turns submitted to the downstream session by the poll loop
Submitted == {i \in 1..Len(tmux) : tmux[i].src = "TELEGRAM" /\ tmux[i].key = "submit"}

\* The session answers the oldest turn it has not answered yet: the tool call
\* telegram_send(message, end_typing=true).  The turns are answered in the
\* order in which they were submitted, one answer each.
Reply ==
    /\ trace.replies < Cardinality(Submitted)
    /\ \E o \in SendOutcomes :
          mcp' = [tool |-> "telegram_send",
                  args |-> [end_typing |-> "true"],
                  sends |-> <<[kind |-> "message", end_typing |-> EndTyping("true"), outcome |-> o]>>,
                  result |-> o, cmd |-> <<>>]
    /\ stop_marker' = ImplTelegramSend(stop_marker, EndTyping("true"))
    /\ loops' = [i \in 1..Len(loops) |->
                    IF loops[i].alive THEN [loops[i] EXCEPT !.req = TRUE] ELSE loops[i]]
    /\ trace' = [trace EXCEPT !.replies = @ + 1, !.stopFor = trace.replies + 1]
    /\ UNCHANGED <<scenario, pidctl, bridge_key, whisper_model, ts_ip, pending, nextId, configFile, envAllowed, run, pc, offset, data,
                   idx, to_inject, cfg, rate_limit, now, typing_thread, stop_event,
                   tmux, sent, bpc, bcount, bresp, readLog, admitted, issued, injCount>>

\* The poll loop of one registered chat, its typing loop threads and a
\* session that answers every turn once, in order.
InitTurns == InitIn({"turns"})

NextTurns ==
    \/ Arrive
    \/ Poll
    \/ Followup
    \/ ProcessUpdate
    \/ InjectContent
    \/ InjectSubmit
    \/ \E i \in 1..MaxUpdates : LoopCheck(i)
    \/ \E i \in 1..MaxUpdates : LoopWake(i)
    \/ Reply
    \/ Elapse

SpecTurns == InitTurns /\ [][NextTurns]_vars

\* The poll loop of one registered chat, its typing loop threads (every
\* sendChatAction request returns at once) and the session's telegram_send
\* calls.
InitSend == InitIn({"send"})

NextSend ==
    \/ Arrive
    \/ Poll
    \/ Followup
    \/ ProcessUpdate
    \/ InjectContent
    \/ InjectSubmit
    \/ \E i \in 1..MaxUpdates : LoopCheck(i)
    \/ \E i \in 1..MaxUpdates : LoopWake(i)
    \/ TelegramSend
    \/ Elapse

SpecSend == InitSend /\ [][NextSend]_vars

\* The poll loop of one registered chat over a transport whose every
\* attempt can fail.
InitRetry == InitIn({"retry"})

NextRetry ==
    \/ Arrive
    \/ Poll
    \/ Followup
    \/ ProcessUpdate
    \/ InjectContent
    \/ InjectSubmit

SpecRetry == InitRetry /\ [][NextRetry]_vars

\* The poll loop of one registered chat that sends voice notes.
InitVoice == InitIn({"voice"})

NextVoice ==
    \/ Arrive
    \/ Poll
    \/ Followup
    \/ ProcessUpdate
    \/ InjectContent
    \/ InjectSubmit

SpecVoice == InitVoice /\ [][NextVoice]_vars

\* The poll loop of two registered chats and its typing loop threads (every
\* sendChatAction request returns at once).
InitPair == InitIn({"pair"})

NextPair ==
    \/ Arrive
    \/ Poll
    \/ Followup
    \/ ProcessUpdate
    \/ InjectContent
    \/ InjectSubmit
    \/ \E i \in 1..MaxUpdates : LoopCheck(i)
    \/ \E i \in 1..MaxUpdates : LoopWake(i)
    \/ Elapse

SpecPair == InitPair /\ [][NextPair]_vars

\* ----------------------------------------------------- subagent commands
TELEGRAM_SEND == "mcp__clawdy-mcp__telegram_send"

\* _AGENT_BLOCKED_TOOLS
AGENT_BLOCKED_TOOLS == <<TELEGRAM_SEND>>

\* tool names a caller can put into allowed_tools
ToolNames == {"Bash", "Read", "mcp__clawdy-mcp__memory_search", TELEGRAM_SEND}

\* the allowed_tools argument: left out (None), or a list of names
AllowedToolsArgs ==
    {[given |-> FALSE, list |-> <<>>]}
    \cup {[given |-> TRUE, list |-> l] : l \in UNION {[1..k -> ToolNames] : k \in 0..MaxTools}}

\* ",".join(names) of a list of one name: the name
CommaJoin(names) == names[1]

\* a filter that lets every name of the list through
SafeToolsUnfiltered(list) == list

\* [t for t in allowed_tools if t not in _AGENT_BLOCKED_TOOLS]
SafeTools(list) == SelectSeq(list, LAMBDA t : t \notin Range(AGENT_BLOCKED_TOOLS))

\* _build_agent_cmd(prompt, model, allowed_tools, session_id)
BuildAgentCmd(allowed, session_id) ==
    <<"claude", "-p", "prompt", "--output-format", "json", "--model", "model">>
    \o (IF session_id # "" THEN <<"--resume", session_id>> ELSE <<>>)
    \o (IF allowed.given
        THEN IF SafeTools(allowed.list) # <<>>
             THEN <<"--allowedTools">> \o SafeTools(allowed.list)
             ELSE <<"--tools", "">>
        ELSE <<"--dangerously-skip-permissions",
               "--disallowedTools", CommaJoin(AGENT_BLOCKED_TOOLS)>>)

\* what running the subagent returns: its parsed answer, a timeout after
\* 300 s, a launch error, a non-zero exit, an answer that does not parse
AgentOutcomes == {"parsed", "timed_out", "launch_error", "failed", "parse_error"}

\* the session_id argument of converse_with_agent
SessionIds == {"", "s1"}

\* the call as call_tool has served it
AgentCall(tool, allowed, session_id, o) ==
    [tool |-> tool,
     args |-> [allowed_tools |-> allowed, session_id |-> session_id],
     sends |-> <<>>, result |-> o,
     cmd |-> BuildAgentCmd(allowed, session_id)]

\* the tool call spawn_agent(prompt, model, allowed_tools)
SpawnAgent ==
    /\ \E allowed \in AllowedToolsArgs, o \in AgentOutcomes :
          mcp' = AgentCall("spawn_agent", allowed, "", o)
    /\ UNCHANGED <<scenario, pidctl, bridge_key, whisper_model, ts_ip, pending, nextId, configFile, envAllowed, run, pc, offset, data,
                   idx, to_inject, cfg, rate_limit, now, loops, typing_thread, stop_event,
                   stop_marker, tmux, sent, bpc, bcount, bresp, readLog, admitted, issued,
                   injCount, trace>>

\* the tool call converse_with_agent(session_id, prompt, model, allowed_tools)
ConverseWithAgent ==
    /\ \E allowed \in AllowedToolsArgs, sid \in SessionIds, o \in AgentOutcomes :
          mcp' = AgentCall("converse_with_agent", allowed, sid, o)
    /\ UNCHANGED <<scenario, pidctl, bridge_key, whisper_model, ts_ip, pending, nextId, configFile, envAllowed, run, pc, offset, data,
                   idx, to_inject, cfg, rate_limit, now, loops, typing_thread, stop_event,
                   stop_marker, tmux, sent, bpc, bcount, bresp, readLog, admitted, issued,
                   injCount, trace>>

\* The tool calls of clawdy-mcp.py, one after another.
InitMcp == InitIn({"mcp"})

NextMcp ==
    \/ SendToPeer
    \/ TelegramSend
    \/ SpawnAgent
    \/ ConverseWithAgent

SpecMcp == InitMcp /\ [][NextMcp]_vars

\* ------------------------------------- the PID-file typing controller
\* every variable but pidctl
programVars == <<scenario, bridge_key, whisper_model, mcp, ts_ip, pending, nextId, configFile,
                envAllowed, run, pc, offset, data, idx, to_inject, cfg, rate_limit, now, loops,
                typing_thread, stop_event, stop_marker, tmux, sent, bpc, bcount, bresp, readLog,
                admitted, issued, injCount, trace>>

\* src/telegram-bot.py, main(): start_typing(chat_id) after a delivered
\* injection; it begins with stop_typing()
PidStartTyping ==
    /\ pidctl.bot.pc = "idle"
    /\ pidctl.spawned < MaxStarts
    /\ pidctl' = [pidctl EXCEPT !.bot.pc = "exists"]
    /\ UNCHANGED programVars

\* stop_typing: if TYPING_PID_FILE.exists()
PidBotExists ==
    /\ pidctl.bot.pc = "exists"
    /\ pidctl' = [pidctl EXCEPT !.bot.pc = IF pidctl.file # 0 THEN "read" ELSE "popen"]
    /\ UNCHANGED programVars

\* stop_typing: pid = int(TYPING_PID_FILE.read_text().strip()); a file removed
\* since the test raises FileNotFoundError, which nothing catches
PidBotRead ==
    /\ pidctl.bot.pc = "read"
    /\ pidctl' = IF pidctl.file = 0 THEN [pidctl EXCEPT !.bot.pc = "raised"]
                 ELSE [pidctl EXCEPT !.bot.pc = "kill", !.bot.pid = pidctl.file]
    /\ UNCHANGED programVars

\* stop_typing: os.kill(pid, 9), ProcessLookupError ignored
PidBotKill ==
    /\ pidctl.bot.pc = "kill"
    /\ pidctl' = [pidctl EXCEPT !.bot.pc = "unlink", !.live = @ \ {pidctl.bot.pid}]
    /\ UNCHANGED programVars

\* stop_typing: TYPING_PID_FILE.unlink(missing_ok=True)
PidBotUnlink ==
    /\ pidctl.bot.pc = "unlink"
    /\ pidctl' = [pidctl EXCEPT !.bot.pc = "popen", !.file = 0]
    /\ UNCHANGED programVars

\* start_typing: proc = subprocess.Popen([..., TYPING_LOOP, chat_id])
PidBotPopen ==
    /\ pidctl.bot.pc = "popen"
    /\ pidctl' = [pidctl EXCEPT !.bot.pc = "write", !.bot.pid = pidctl.spawned + 1,
                                !.spawned = @ + 1, !.live = @ \cup {pidctl.spawned + 1}]
    /\ UNCHANGED programVars

\* start_typing: TYPING_PID_FILE.write_text(str(proc.pid))
PidBotWrite ==
    /\ pidctl.bot.pc = "write"
    /\ pidctl' = [pidctl EXCEPT !.bot.pc = "idle", !.file = pidctl.bot.pid, !.last = "start"]
    /\ UNCHANGED programVars

\* src/clawdy-mcp.py, impl_telegram_send: if end_typing: stop_typing()
PidTelegramSend ==
    /\ pidctl.tool.pc = "idle"
    /\ pidctl.stops < MaxStops
    /\ pidctl' = [pidctl EXCEPT !.tool.pc = "exists", !.stops = @ + 1]
    /\ UNCHANGED programVars

\* stop_typing: if TYPING_PID.exists()
PidToolExists ==
    /\ pidctl.tool.pc = "exists"
    /\ pidctl' = IF pidctl.file # 0 THEN [pidctl EXCEPT !.tool.pc = "read"]
                 ELSE [pidctl EXCEPT !.tool.pc = "idle", !.last = "stop"]
    /\ UNCHANGED programVars

\* stop_typing: pid = int(TYPING_PID.read_text().strip()); a file removed since
\* the test raises FileNotFoundError: the tool call fails, the server goes on
PidToolRead ==
    /\ pidctl.tool.pc = "read"
    /\ pidctl' = IF pidctl.file = 0 THEN [pidctl EXCEPT !.tool.pc = "idle", !.last = "raised"]
                 ELSE [pidctl EXCEPT !.tool.pc = "kill", !.tool.pid = pidctl.file]
    /\ UNCHANGED programVars

\* stop_typing: os.kill(pid, 9), ProcessLookupError ignored
PidToolKill ==
    /\ pidctl.tool.pc = "kill"
    /\ pidctl' = [pidctl EXCEPT !.tool.pc = "unlink", !.live = @ \ {pidctl.tool.pid}]
    /\ UNCHANGED programVars

\* stop_typing: TYPING_PID.unlink(missing_ok=True)
PidToolUnlink ==
    /\ pidctl.tool.pc = "unlink"
    /\ pidctl' = [pidctl EXCEPT !.tool.pc = "idle", !.file = 0, !.last = "stop"]
    /\ UNCHANGED programVars

\* clawdy-typing-loop.py: the loop leaves its while when the timeout is reached
PidLoopTimeout ==
    /\ \E p \in pidctl.live : pidctl' = [pidctl EXCEPT !.live = @ \ {p}]
    /\ UNCHANGED programVars

\* The bot's start_typing calls and the MCP server's stop_typing calls, two
\* processes on one PID file, and the typing-loop processes.
InitPid == InitIn({"pid"})

NextPid ==
    \/ PidStartTyping
    \/ PidBotExists
    \/ PidBotRead
    \/ PidBotKill
    \/ PidBotUnlink
    \/ PidBotPopen
    \/ PidBotWrite
    \/ PidTelegramSend
    \/ PidToolExists
    \/ PidToolRead
    \/ PidToolKill
    \/ PidToolUnlink
    \/ PidLoopTimeout

SpecPid == InitPid /\ [][NextPid]_vars

\* ================================================================ claims
Kinds(log, k) == {i \in 1..Len(log) : log[i].kind = k}
IsProcessStep == pc = "process" /\ idx <= Len(data) /\ idx' = idx + 1 /\ run' = run

\* C1: a message is queued for injection only if its chat is in the allowed
\* set of the registry at the moment the message is processed; nothing of a
\* chat outside the allowed set is queued, issued or delivered.
C1_OnlyAllowedInjected ==
    /\ [](/\ \A i \in 1..Len(to_inject) : to_inject[i].chat \in Range(cfg)
          /\ \A i \in 1..Len(issued) : issued[i].chat \in Range(cfg))
    /\ [][IsProcessStep /\ to_inject' # to_inject
            => data[idx].msg.chat \in Range(cfg)
               /\ \A i \in 1..Len(to_inject') : to_inject'[i].chat \in Range(cfg)]_vars

\* C1 witness: an injection was issued from a batch that also carried a text
\* of a chat outside the allowed set.
C1_Witness ==
    /\ issued # <<>>
    /\ \E k \in 1..Len(data) : data[k].msg.kind = "text" /\ data[k].msg.chat \notin Range(cfg)

\* C2: between one caller's content delivery and its own submit, no keystroke
\* of the other caller reaches the downstream session: every submit directly
\* follows the content delivery of the same caller.
C2_DeliveryAtomic ==
    \A i \in 1..Len(tmux) :
        tmux[i].key = "submit" => i > 1 /\ tmux[i-1].key = "content" /\ tmux[i-1].src = tmux[i].src

\* the admitted fragment texts of chat c in the current batch, in arrival order
Fragments(c) ==
    LET mine == SelectSeq(admitted, LAMBDA a : a.chat = c)
    IN  [k \in 1..Len(mine) |-> mine[k].text]

RECURSIVE StartOf(_, _)
\* position of fragment k in a text made of the fragments fs, one separator
\* word between neighbours
StartOf(fs, k) == IF k = 1 THEN 1 ELSE StartOf(fs, k - 1) + Len(fs[k - 1]) + 1

IsBlankLineJoin(t, fs) ==
    /\ fs # <<>>
    /\ Len(t) = StartOf(fs, Len(fs)) + Len(fs[Len(fs)]) - 1
    /\ \A k \in 1..Len(fs) :
          /\ SubSeq(t, StartOf(fs, k), StartOf(fs, k) + Len(fs[k]) - 1) = fs[k]
          /\ k < Len(fs) => t[StartOf(fs, k) + Len(fs[k])] = PARA

\* C3: per batch and chat with an admitted fragment, exactly one injection is
\* issued, and its text is the chat's admitted fragments in arrival order
\* joined by a blank line.
C3_OneJoinedInjection ==
    /\ \A i, j \in 1..Len(issued) : issued[i].chat = issued[j].chat => i = j
    /\ \A i \in 1..Len(issued) : IsBlankLineJoin(issued[i].text, Fragments(issued[i].chat))
    /\ pc \in {"poll", "followup"} =>
          \A k \in 1..Len(admitted) : \E i \in 1..Len(issued) : issued[i].chat = admitted[k].chat

\* C3 witness: an injection made of two different fragments of one chat.
C3_Witness ==
    \E i \in 1..Len(issued) :
        LET fs == Fragments(issued[i].chat)
        IN  Len(fs) = 2 /\ fs[1] # fs[2] /\ issued[i].text = fs[1] \o <<PARA>> \o fs[2]

\* C4: within a process run the cursor never decreases, the ids read by the
\* loop are strictly increasing (none is read twice), and every poll asks for
\* ids above all ids already read.
C4_ReadsIncrease ==
    /\ \A i, j \in 1..Len(readLog) : i < j => readLog[i] < readLog[j]
    /\ (pc = "poll" /\ readLog # <<>>) => \A i \in 1..Len(readLog) : readLog[i] < offset
    /\ pc = "followup" => \A i \in 1..Len(readLog) : readLog[i] < data[1].id
    /\ pc = "process" => \A k \in idx..Len(data) : \A i \in 1..Len(readLog) : readLog[i] < data[k].id

C4_CursorMonotone == []C4_ReadsIncrease /\ [][run' = run => offset' >= offset]_vars

\* C4 witness: a later poll has returned new updates after earlier ones were read.
C4_Witness == pc = "followup" /\ readLog # <<>> /\ offset > 1

\* C5: once a batch has been read the cursor is the batch's last update id
\* plus one, whatever happened to its updates downstream, and no update
\* contributes to more than one injection in a process run.
C5_CursorPastBatch ==
    /\ pc \in {"inject", "submit"} => offset = data[Len(data)].id + 1
    /\ (pc = "poll" /\ data # <<>>) => offset = data[Len(data)].id + 1
    /\ (pc = "process" /\ idx > 1) => offset = data[idx - 1].id + 1
    /\ \A i \in DOMAIN injCount : injCount[i] <= 1

\* C5 witness: a batch of two updates is done, one of them was dropped with a
\* notice and an injection failed.
C5_Witness ==
    /\ pc = "poll" /\ Len(data) = 2
    /\ Kinds(sent, "unreachable") # {}
    /\ Kinds(sent, "download_fail") \cup Kinds(sent, "too_large") \cup Kinds(sent, "transcribe_fail") # {}

\* C6: with an empty registry the first message processed from a chat, text
\* or attachment, makes that chat the owner: it is in the allowed set, the
\* registry is persisted and a welcome is sent to it.
C6_FirstMessageRegisters ==
    [][(IsProcessStep /\ cfg = <<>> /\ data[idx].msg.kind # "nomsg")
         => /\ cfg' = <<data[idx].msg.chat>>
            /\ configFile' = cfg'
            /\ \E i \in 1..Len(sent') : sent'[i] = Msg(data[idx].msg.chat, "welcome", data[idx].msg.chat)]_vars

\* C7: an unregistered chat that keeps sending while unauthorized causes
\* exactly one notification to the owner: never more than one approval
\* request about the same chat (before any restart re-reads an update).
C7_OneApprovalRequest ==
    run = 0 => \A c \in Chats : Cardinality({i \in Kinds(sent, "approval") : sent[i].about = c}) <= 1

\* C8: after bootstrap the registry changes during message processing only
\* by an /allow command naming the added id, sent by a chat in the allowed
\* set; an /allow command of a chat outside the allowed set changes nothing.
C8_OnlyAllowedCanAllow ==
    [][(cfg # <<>> /\ run' = run /\ cfg' # cfg)
         => /\ IsProcessStep
            /\ data[idx].msg.chat \in Range(cfg)
            /\ data[idx].msg.text[1] = "/allow"
            /\ \E c \in 1..Len(Digits) :
                  /\ data[idx].msg.text[Len(data[idx].msg.text)] = Digits[c]
                  /\ cfg' = Append(cfg, c)]_vars

\* C8 witness: an /allow of an outside chat was refused and an /allow of the
\* owner was carried out.
C8_Witness ==
    /\ cfg = <<1, 2>>
    /\ \E i \in Kinds(sent, "allow_ok") : sent[i].to = 1 /\ sent[i].about = 2
    /\ \E i \in Kinds(sent, "unauthorized") : sent[i].to = 2
    /\ \E k \in 1..Len(data) : data[k].msg = TextMsg(2, <<"/allow", "2">>)

\* C9: the owner, allowed_chats[0], is set once: no message, /allow command
\* or restart makes a different chat the owner.
C9_OwnerSetOnce == [][cfg # <<>> => (cfg' # <<>> /\ cfg'[1] = cfg[1])]_vars

Oversize(m) == m.text = <<>> /\ m.kind \in {"document", "voice"} /\ m.size > FILE_SIZE_LIMIT
Notified(e, kind) == \E i \in 1..Len(e.sends) : e.sends[i] = Msg(e.msg.chat, kind, 0)
C16_OversizeNeverFetched ==
    \A k \in 1..Len(trace.seen) :
        LET e == trace.seen[k]
        IN  (e.allowed /\ Oversize(e.msg)) =>
                /\ e.fetch = 0
                /\ Notified(e, "too_large")
                /\ ~e.queued
                /\ injCount[e.id] = 0
                /\ \A i \in 1..Len(admitted) : admitted[i].id # e.id
C16_Witness ==
    \E k \in 1..Len(trace.seen) :
        /\ trace.seen[k].allowed /\ Oversize(trace.seen[k].msg)
        /\ \E i \in 1..Len(sent) : sent[i].kind = "too_large"
        /\ pc = "poll"

\* C17: a voice message that cannot be transcribed and an attachment that
\* cannot be downloaded are answered with a failure notice and dropped; the
\* text queued for, and handed to, an injection is never empty.
C17_FailuresDropped ==
    /\ \A k \in 1..Len(trace.seen) :
          LET e == trace.seen[k]
          IN  /\ ~e.dl => (Notified(e, "download_fail") /\ ~e.queued /\ injCount[e.id] = 0)
              /\ ~e.tr => (Notified(e, "transcribe_fail") /\ ~e.queued /\ injCount[e.id] = 0)
    /\ \A i \in 1..Len(admitted) : admitted[i].text # <<>>
    /\ \A i \in 1..Len(to_inject) :
          \A j \in 1..Len(to_inject[i].texts) : to_inject[i].texts[j] # <<>>
    /\ \A i \in 1..Len(issued) : issued[i].text # <<>>
    /\ \A i \in 1..Len(tmux) : tmux[i].key = "content" => tmux[i].text # <<>>
C17_Witness ==
    /\ \E k \in 1..Len(trace.seen) : ~trace.seen[k].tr
    /\ \E k \in 1..Len(trace.seen) : ~trace.seen[k].dl
    /\ pc = "poll"

\* C18 (as stated): every peer call whose secret differs from the configured
\* one is answered 403, for any path and any body, and delivers no keystroke.
C18_WrongSecretIs403 ==
    \A k \in 1..Len(trace.breq) :
        trace.breq[k].key # "secret" =>
            (trace.breq[k].status = 403 /\ trace.breq[k].calls = <<>>)

\* C18 (amended): a peer call whose secret differs from the configured one
\* is answered 403 when its path is /inject and 404 otherwise, for any body,
\* and no send-keys call is made for it: the downstream session receives PEER
\* keystrokes only for requests that carried the configured secret.
C18_WrongSecretRejected ==
    /\ \A k \in 1..Len(trace.breq) :
          trace.breq[k].key # "secret" =>
              /\ trace.breq[k].status = (IF trace.breq[k].path = "/inject" THEN 403 ELSE 404)
              /\ trace.breq[k].calls = <<>>
    /\ (\E i \in 1..Len(tmux) : tmux[i].src = "PEER") =>
          \E k \in 1..Len(trace.breq) :
              trace.breq[k].key = "secret" /\ trace.breq[k].path = "/inject"
C18_Witness ==
    \E k \in 1..Len(trace.breq) :
        /\ trace.breq[k].key = "wrong" /\ trace.breq[k].path = "/inject"
        /\ trace.breq[k].body = "msg" /\ trace.breq[k].status = 403
        /\ bresp[k] = 403

\* C19: an authenticated POST /inject is answered 200 exactly when both
\* send-keys calls succeeded, 500 when the payload was valid and a call
\* failed, 400 without any call when the body is malformed or the message is
\* empty; every request handled gets exactly one status, out of 200, 400,
\* 403, 404 and 500.
Answered == SelectSeq(trace.breq, LAMBDA r : r.status # 0)
C19_StatusMatchesDelivery ==
    /\ \A k \in 1..Len(trace.breq) :
          LET r == trace.breq[k]
          IN  /\ (r.key = "secret" /\ r.path = "/inject") =>
                    /\ r.status = 200 <=> r.calls = <<TRUE, TRUE>>
                    /\ r.status = 500 <=> (r.body = "msg" /\ r.calls \in {<<FALSE>>, <<TRUE, FALSE>>})
                    /\ r.body \in {"badjson", "empty"} => (r.status = 400 /\ r.calls = <<>>)
                    /\ r.status = 400 => r.body \in {"badjson", "empty"}
              /\ r.status \in {0, 200, 400, 403, 404, 500}
              /\ r.status = 0 => (k = Len(trace.breq) /\ bpc # "idle")
    /\ bpc = "idle" => Len(Answered) = Len(trace.breq)
    /\ Len(bresp) = Len(Answered)
    /\ \A k \in 1..Len(bresp) : bresp[k] = Answered[k].status
\* C11: a message that reaches the rate limiter is admitted exactly when
\* fewer than 5 messages of its chat were admitted in the 30 seconds before
\* it; so no 30-second interval holds more than 5 admissions of a chat, and
\* of 6 messages within 10 seconds that meet an empty window the first 5 are
\* admitted and the 6th is rejected.
ByChat(c) == SelectSeq(trace.rate, LAMBDA e : e.chat = c)
AdmittedBefore(es, k) == {j \in 1..(k - 1) : es[j].ok /\ es[k].t - es[j].t < 30}
C11_AdmitIffUnderLimit ==
    \A c \in Chats :
        LET es == ByChat(c)
        IN  /\ \A k \in 1..Len(es) : es[k].ok <=> Cardinality(AdmittedBefore(es, k)) < 5
            /\ \A w \in 0..MaxClock :
                  Cardinality({j \in 1..Len(es) : es[j].ok /\ w <= es[j].t /\ es[j].t < w + 30}) <= 5
            /\ \A k \in 1..Len(es) :
                  (k + 5 <= Len(es) /\ AdmittedBefore(es, k) = {} /\ es[k + 5].t - es[k].t <= 10) =>
                      /\ \A j \in k..(k + 4) : es[j].ok
                      /\ ~es[k + 5].ok
C11_Witness ==
    LET es == ByChat(1)
    IN  /\ Len(es) = 6
        /\ \A j \in 1..5 : es[j].ok
        /\ ~es[6].ok
        /\ es[6].t - es[1].t = 10
        /\ \E i \in 1..Len(sent) : sent[i] = Msg(1, "slow_down", 0)

\* C12: a message rejected by the rate limiter is dropped: it is not queued
\* and contributes to no injection of this or a later batch, its timestamp
\* is not in the chat's window (the window holds the admitted messages that
\* were less than 30 s old at the chat's last verdict), and one throttling
\* notice per rejection is sent to the chat.
WindowOf(c) ==
    LET es == ByChat(c)
        kept == SelectSeq(es, LAMBDA e : e.ok /\ es[Len(es)].t - e.t < 30)
    IN  [i \in 1..Len(kept) |-> kept[i].t]
C12_RejectedIsDropped ==
    /\ \A k \in 1..Len(trace.rate) :
          ~trace.rate[k].ok =>
              /\ injCount[trace.rate[k].id] = 0
              /\ \A i \in 1..Len(admitted) : admitted[i].id # trace.rate[k].id
    /\ \A c \in Chats :
          /\ rate_limit[c] = WindowOf(c)
          /\ Cardinality({i \in 1..Len(sent) : sent[i] = Msg(c, "slow_down", 0)})
                = Cardinality({k \in 1..Len(trace.rate) : trace.rate[k].chat = c /\ ~trace.rate[k].ok})
    /\ Cardinality({i \in 1..Len(tmux) : tmux[i].key = "content"})
          <= Cardinality({k \in 1..Len(trace.rate) : trace.rate[k].ok})
C12_Witness ==
    /\ \E k \in 1..Len(trace.rate) :
          /\ ~trace.rate[k].ok
          /\ \E j \in 1..Len(admitted) : admitted[j].id < trace.rate[k].id
    /\ Len(rate_limit[1]) = RATE_MAX
    /\ \E i \in 1..Len(tmux) : tmux[i].key = "submit"
    /\ pc = "poll"

\* C13: after start_typing has returned, one typing loop thread is live,
\* whatever the previous loop was doing when start_typing was called: at no
\* time are two loop threads alive (and sending typing actions) together.
Live == {i \in 1..Len(loops) : loops[i].alive}
C13_OneLoopLive == Cardinality(Live) <= 1

\* C14: a typing loop that is never asked to stop (no stop marker while it
\* runs, no stop event) sends no sendChatAction request later than the 90 s
\* deadline plus one 4 s tick after its start.
C14_NoActionPastDeadline ==
    \A i \in 1..Len(loops) :
        (loops[i].asked = "no" /\ ~loops[i].req) => ~loops[i].late

\* C15: a typing loop that is running when the send side creates the stop
\* marker exits at its next iteration boundary: it never passes the marker
\* check and sends another typing action after the marker was created.
C15_MarkerStopsLoop == \A i \in 1..Len(loops) : ~loops[i].sentReq

\* C20: when a poll-loop injection fails, the typing loop started for that
\* turn sends no typing action after stop_typing was called for it.
C20_FailureStopsTyping == \A i \in 1..Len(loops) : ~loops[i].sentAsked

\* C21: after start-up no failure of a poll, a send, a download, a
\* transcription, a config write or a downstream delivery ends the main
\* loop: the loop is never left by an exception.
C21_LoopSurvives == pc # "crashed"

\* C22: every message of a chat outside a non-empty registry, text or
\* attachment, is answered in the step that processes it with a notice to
\* the owner (the registry's first chat) and a notice to the sender.
C22_UnknownChatNotified ==
    [][(/\ IsProcessStep
        /\ data[idx].msg.kind # "nomsg"
        /\ cfg # <<>>
        /\ ~InAllowed(data[idx].msg.chat, cfg))
         => /\ \E i \in (Len(sent) + 1)..Len(sent') :
                  sent'[i] = Msg(cfg[1], "approval", data[idx].msg.chat)
            /\ \E i \in (Len(sent) + 1)..Len(sent') :
                  sent'[i] = Msg(data[idx].msg.chat, "unauthorized", 0)]_vars

C24_DefaultKeepsTyping ==
    /\ [][(mcp' # mcp /\ mcp'.tool = "telegram_send" /\ mcp'.args.end_typing # "true")
            => (stop_marker' = stop_marker /\ loops' = loops)]_vars
    /\ [][(~stop_marker /\ stop_marker')
            => (mcp'.tool = "telegram_send" /\ mcp'.args.end_typing = "true")]_vars
C24_Witness ==
    /\ mcp.tool = "telegram_send" /\ mcp.args.end_typing = "omitted"
    /\ mcp.result = "request_failed"
    /\ ~stop_marker
    /\ \E i \in 1..Len(loops) :
          loops[i].alive /\ ~loops[i].req /\ loops[i].age >= TYPING_TICK

\* C25: whatever allowed_tools is (left out, empty, any list, lists naming
\* telegram_send included), the command built for spawn_agent and for
\* converse_with_agent does not grant mcp__clawdy-mcp__telegram_send: with a
\* list, the name is not among the --allowedTools entries and permissions
\* are not skipped, and a list with no other name gives --tools "" alone;
\* without a list, the name is the --disallowedTools entry.
FlagAt(cmd, flag) == {i \in 1..Len(cmd) : cmd[i] = flag}
Granted(cmd, tool) ==
    \/ \E i \in FlagAt(cmd, "--allowedTools") : \E j \in (i + 1)..Len(cmd) : cmd[j] = tool
    \/ /\ FlagAt(cmd, "--dangerously-skip-permissions") # {}
       /\ ~\E i \in FlagAt(cmd, "--disallowedTools") : i < Len(cmd) /\ cmd[i + 1] = tool
C25_TelegramSendBlocked ==
    mcp.tool \in {"spawn_agent", "converse_with_agent"} =>
        LET a == mcp.args.allowed_tools
            others == SelectSeq(a.list, LAMBDA t : t # TELEGRAM_SEND)
        IN  /\ ~Granted(mcp.cmd, TELEGRAM_SEND)
            /\ a.given => FlagAt(mcp.cmd, "--dangerously-skip-permissions") = {}
            /\ (a.given /\ others = <<>>) =>
                  /\ FlagAt(mcp.cmd, "--allowedTools") = {}
                  /\ SubSeq(mcp.cmd, Len(mcp.cmd) - 1, Len(mcp.cmd)) = <<"--tools", "">>
            /\ (a.given /\ others # <<>>) =>
                  \E i \in FlagAt(mcp.cmd, "--allowedTools") :
                      SubSeq(mcp.cmd, i + 1, Len(mcp.cmd)) = others
            /\ ~a.given =>
                  SubSeq(mcp.cmd, Len(mcp.cmd) - 2, Len(mcp.cmd))
                      = <<"--dangerously-skip-permissions", "--disallowedTools", TELEGRAM_SEND>>
C25_Witness ==
    /\ mcp.tool = "converse_with_agent" /\ mcp.args.session_id = "s1"
    /\ mcp.args.allowed_tools = [given |-> TRUE, list |-> <<TELEGRAM_SEND, "Read">>]
    /\ mcp.cmd = <<"claude", "-p", "prompt", "--output-format", "json", "--model", "model",
                   "--resume", "s1", "--allowedTools", "Read">>

\* C26: in every run in which the peer bridge is started it is bound to a
\* private interface; it never listens on all interfaces (0.0.0.0).
C26_PrivateBind == ts_ip # "0.0.0.0"

\* C27: the fragments of one allowed chat in a batch count as one message
\* for the rate limiter: they are admitted or rejected together, and after
\* the first of them has been admitted a further fragment of the same batch
\* adds no entry to the chat's rate window.
SeenOf(c) == SelectSeq(trace.seen, LAMBDA e : e.msg.kind # "nomsg" /\ e.msg.chat = c)
C27_BatchIsOneUnit ==
    /\ [](\A c \in Chats :
             ~(/\ \E k \in 1..Len(SeenOf(c)) : SeenOf(c)[k].queued
               /\ \E k \in 1..Len(SeenOf(c)) : Throttled(SeenOf(c)[k].sends)))
    /\ [][(/\ IsProcessStep
           /\ data[idx].msg.kind # "nomsg"
           /\ \E k \in 1..Len(SeenOf(data[idx].msg.chat)) : SeenOf(data[idx].msg.chat)[k].queued)
            => rate_limit'[data[idx].msg.chat] = rate_limit[data[idx].msg.chat]]_vars

\* C28: typing sessions are per chat: a typing loop that start_typing asked
\* to stop was replaced by a loop of the same chat; starting a session for
\* another chat leaves it running.
C28_SessionsPerChat ==
    \A i \in 1..Len(loops) :
        (loops[i].asked = "restart" /\ i < Len(loops)) => loops[i + 1].chat = loops[i].chat

\* C29: a poll that returned updates is followed by exactly one follow-up
\* poll before any of them is processed; the follow-up asks from the last
\* update id + 1 (it confirms the first result and returns the later
\* updates only), what it returns is appended to the first result, and when
\* it fails or returns nothing the first result is the batch; the for loop
\* then runs over the whole batch.
LaterThan(q, b) == SelectSeq(q, LAMBDA u : u.id > b[Len(b)].id)
C29_OneFollowup ==
    /\ [][(pc = "poll" /\ pc' # "poll") => (pc' = "followup" /\ data' # <<>>)]_vars
    /\ [][(pc = "poll" /\ run' = run /\ data' # data /\ data' # <<>>) => pc' = "followup"]_vars
    /\ [][(pc # "process" /\ pc' = "process") => pc = "followup"]_vars
    /\ [][(pc = "followup" /\ run' = run /\ (pc' # pc \/ data' # data))
            => /\ pc' = "process" /\ idx' = 1
               /\ \/ data' = data /\ pending' = pending
                  \/ /\ pending' = LaterThan(pending, data)
                     /\ data' = data \o pending']_vars
    /\ [][(pc = "process" /\ pc' # "process" /\ run' = run) => idx = Len(data)]_vars
C29_Witness ==
    /\ pc = "process" /\ idx = Len(data) /\ Len(data) = 2
    /\ pending = <<data[2]>>
    /\ readLog # <<>> /\ readLog[Len(readLog)] = data[1].id

\* C30: a get_updates call and a tg_request call return after at most three
\* attempts: an attempt that answers ends the call, an attempt that raises
\* is followed by a sleep of 1 s after the first and 2 s after the second,
\* and after the third the call returns a not-ok value; after a poll that
\* returned not-ok the main loop is at the poll again with the cursor, the
\* batch and the transport's queue as they were.
Raises(os, k) == \A j \in 1..k : os[j] = "raise"
C31_LoadedOnce == Len(trace.loads) <= 1

\* a step of the peer bridge handler thread
IsBridgeStep == bcount' # bcount \/ bpc' # bpc

\* C32: handling a peer bridge request, whatever its path, secret, payload
\* and delivery outcome, leaves the chat registry (in memory and on disk),
\* every chat's rate window, the poll cursor and the typing session unchanged,
\* and a request with the configured secret and a message goes on to be
\* delivered whatever the registry and the rate windows hold.
C32_BridgeFrame ==
    [][IsBridgeStep =>
          /\ cfg' = cfg /\ configFile' = configFile /\ rate_limit' = rate_limit
          /\ offset' = offset
          /\ loops' = loops /\ typing_thread' = typing_thread
          /\ stop_event' = stop_event /\ stop_marker' = stop_marker
          /\ (bcount' # bcount =>
                LET r == trace'.breq[Len(trace'.breq)]
                IN  (r.path = "/inject" /\ r.key = "secret" /\ r.body = "msg")
                        => bpc' = "content")]_vars
C32_Witness ==
    /\ \E i \in 1..Len(tmux) : tmux[i].src = "PEER" /\ tmux[i].key = "submit"
    /\ \E c \in Chats : rate_limit[c] # <<>>
    /\ typing_thread # 0
    /\ offset > 0

\* the poll loop delivers the content of an injection in this step
IsContentStep ==
    /\ Len(tmux') = Len(tmux) + 1
    /\ tmux'[Len(tmux')].src = "TELEGRAM" /\ tmux'[Len(tmux')].key = "content"

\* C33: when the content of a poll-loop injection reaches the downstream
\* session, the typing session of that chat has been started: the stop marker
\* is absent and a new loop thread for the chat is the current one.  The
\* marker is erased by nothing but that start and a typing loop consuming it:
\* not by the submit nor by any later step of the main thread, so a stop
\* request made after the content was delivered is not erased by the turn's
\* own start_typing.
C33_StartBeforeContent ==
    [][/\ IsContentStep =>
             /\ ~stop_marker'
             /\ Len(loops') = Len(loops) + 1
             /\ typing_thread' = Len(loops')
             /\ loops'[typing_thread'] = NewLoop(Head(to_inject).chat)
       /\ (stop_marker /\ ~stop_marker') =>
             \/ pc = "inject" /\ Len(issued') = Len(issued) + 1
             \/ \E i \in 1..Len(loops) :
                   loops[i].alive /\ loops[i].at = "check" /\ ~loops'[i].alive]_vars
C33_Witness ==
    /\ pc = "submit" /\ Len(loops) = 2
    /\ stop_marker
    /\ typing_thread # 0 /\ loops[typing_thread].alive /\ loops[typing_thread].req

\* C34: an attachment of a chat that is not in the allowed set when the
\* update is processed causes no file-metadata call and no download (so no
\* local file), no progress notice, no transcription and no load of the
\* transcription model, and nothing of it is queued.
C34_OnlyAllowedResolved ==
    [][(/\ IsProcessStep
        /\ data[idx].msg.kind \in {"document", "voice"}
        /\ data[idx].msg.chat \notin Range(cfg))
         => LET e == trace'.seen[Len(trace'.seen)]
            IN  /\ e.id = data[idx].id
                /\ e.fetch = 0
                /\ \A i \in (Len(sent) + 1)..Len(sent') :
                      sent'[i].kind \notin {"downloading", "transcribing", "download_fail",
                                            "transcribe_fail", "too_large"}
                /\ whisper_model' = whisper_model
                /\ to_inject' = to_inject /\ admitted' = admitted]_vars
C34_Witness ==
    /\ \E k \in 1..Len(trace.seen) :
          /\ trace.seen[k].msg.kind = "voice" /\ ~trace.seen[k].allowed
          /\ trace.seen[k].fetch = 0
    /\ \E k \in 1..Len(trace.seen) :
          /\ trace.seen[k].msg.kind = "voice" /\ trace.seen[k].allowed
          /\ trace.seen[k].fetch = 1
    /\ cfg # <<>>

\* C35: content and submit deliveries to the downstream session strictly
\* alternate: every content delivery is followed by a submit before the next
\* content delivery, also when the submit step of an injection failed.
C35_ContentThenSubmit ==
    \A i \in 1..Len(tmux) :
        (tmux[i].key = "content" /\ i < Len(tmux)) => tmux[i + 1].key = "submit"

\* C36: a stop request ends the typing session of the turn that produced it
\* and of no later turn: the typing loop that consumes the stop marker is the
\* loop started for the turn whose answer created the marker (the k-th loop
\* is started for the k-th turn when every delivery succeeds).
C36_StopBelongsToTurn ==
    [][\A i \in 1..Len(loops) :
          (/\ stop_marker /\ ~stop_marker'
           /\ Len(loops') = Len(loops)
           /\ loops[i].alive /\ ~loops'[i].alive)
            => trace.stopFor = i]_vars

\* C37: the peer bridge performs no injection for a request without a secret
\* or with an empty one: such a request gets no send-keys call and is turned
\* away (403, or 404 on another path), on an install with and on one without
\* a configured secret, and no request at all is handled when no secret is
\* configured.
C37_NoSecretNoInjection ==
    /\ \A k \in 1..Len(trace.breq) :
          /\ trace.breq[k].key = "" =>
                (trace.breq[k].calls = <<>> /\ trace.breq[k].status \in {403, 404})
          /\ bridge_key # ""
    /\ (\E i \in 1..Len(tmux) : tmux[i].src = "PEER") =>
          \E k \in 1..Len(trace.breq) : trace.breq[k].key # ""
C37_Witness ==
    \E k \in 1..Len(trace.breq) :
        /\ trace.breq[k].key = "" /\ trace.breq[k].path = "/inject"
        /\ trace.breq[k].body = "msg" /\ bresp[k] = 403

\* C38: an update consumed as a control message (an /allow command of an
\* allowed chat, the first-contact message that registered the owner) is
\* never queued for, issued as or delivered in an injection.
C38_ControlConsumed ==
    /\ \A i \in 1..Len(admitted) : admitted[i].id \notin trace.control
    /\ \A i \in 1..Len(tmux) :
          tmux[i].key = "content" => (tmux[i].text = <<>> \/ tmux[i].text[1] # "/allow")

\* C39: /allow is idempotent on the registry: every chat id occurs at most
\* once in the allowed list, in memory and as persisted, after any sequence
\* of commands.
C39_AllowIdempotent ==
    /\ \A i, j \in 1..Len(cfg) : cfg[i] = cfg[j] => i = j
    /\ \A i, j \in 1..Len(configFile) : configFile[i] = configFile[j] => i = j

\* C40: in the PID-file typing controller, whenever neither the bot nor the
\* MCP server is inside start_typing or stop_typing, every live typing-loop
\* process is the one named by the PID file, and when the call that completed
\* last is a stop_typing no typing loop is alive.
C40_PidFileTracksLoop ==
    (pidctl.bot.pc = "idle" /\ pidctl.tool.pc = "idle") =>
        /\ pidctl.live \subseteq {pidctl.file}
        /\ pidctl.last = "stop" => pidctl.live = {}

====
